---- MODULE Spec2Model ----
(***************************************************************************)
(* MoonVR video relay: the FrameCache (src/frame_cache.py) and the         *)
(* CachedMediaRelay built on it (src/cached_relay.py).                     *)
(*                                                                         *)
(* Four specifications share the variables below; each one moves the part  *)
(* of the state its operations touch and leaves the rest at its initial    *)
(* value:                                                                  *)
(*   CacheSpec  _cache_frame / get_frame_to_serve against a clock          *)
(*   ParseSpec  _parse_mjpeg_stream over a byte stream cut into chunks     *)
(*   LifeSpec   start / stop / _fetch_worker threads of one FrameCache     *)
(*   RelaySpec  add_client / remove_client / _stream_worker /              *)
(*              _distribute_frame and the viewers' consumer threads        *)
(*                                                                         *)
(* Time is a discrete clock `now` (one unit = one second of time.time()).  *)
(* Every `with self.lock:` block is one atomic action; a statement outside *)
(* a lock that another thread can interleave with is an action of its own. *)
(***************************************************************************)
EXTENDS Integers, Sequences, FiniteSets, TLC

\* ------------------------------------------------------------------ bounds
MaxTime == 5        \* the clock stops advancing here
MaxFrames == 3      \* frames one run records (frames_received is capped)
MaxCalls == 2       \* get_frame_to_serve calls in one run
MaxDuration == 2    \* cache_duration is drawn from 1..MaxDuration
MaxDelay == 2       \* serve_delay is drawn from 0..MaxDelay

MaxLifeFrames == 2  \* frames the ingestion threads of LifeSpec record in one run
MaxWorkers == 2     \* ingestion threads one run creates
MaxErrors == 1      \* upstream failures one run sees (upstream_errors is capped)
MaxPerChunk == 1    \* complete frames one chunk can add to a thread's buffer
NumCallers == 2     \* threads calling start() and stop()

MaxFailures == 12   \* upstream failures one _fetch_worker sees in BackoffSpec
MaxDist == 4        \* envelopes the distribution thread builds in one run
NumViewers == 2     \* viewers that join in one run

MaxRelays == 3      \* relays constructed in one run of RegistrySpec
NumThreads == 2     \* request threads calling get_media_relay
NumUrls == 2        \* distinct upstream URLs looked up
MaxCleanups == 1    \* cleanup_relays calls in one run
MaxRemoves == 2     \* remove_client calls in one run of RemoveSpec
MaxRemoveDist == 2  \* envelopes built in one run of RemoveSpec

Threads == 1..NumThreads
Urls == 1..NumUrls
Viewers == 1..NumViewers
Workers == 1..MaxWorkers
Callers == 1..NumCallers

\* ------------------------------------------------------------ byte values
FF == 255
D8 == 216
D9 == 217
XX == 0             \* any byte that is part of no marker

SOI == <<FF, D8>>   \* b'\xff\xd8'
EOI == <<FF, D9>>   \* b'\xff\xd9'

VARIABLES
    \* ---- FrameCache (src/frame_cache.py:59-80)
    now,                \* time.time()
    cache_duration,     \* self.cache_duration
    serve_delay,        \* self.serve_delay
    frames,             \* self.frames: deque of CachedFrame, oldest first
    sequence_counter,   \* self.sequence_counter
    frames_received,    \* self.frames_received
    frames_served,      \* self.frames_served
    \* ---- the ingestion thread inside _cache_frame
    cfPc,               \* "idle" | "stamped" (timestamp read, lock not yet taken)
    cfTimestamp,        \* local `timestamp`
    cfData,             \* parameter `frame_data`
    lastRecorded,       \* history: the frame appended last (NoFrame before any)
    \* ---- a caller thread inside get_frame_to_serve
    gfPc,               \* "idle" | "timed" (current_time read) | "returned"
    gfTime,             \* local `current_time`
    gfResult,           \* the frame whose data was returned (NoFrame: None)
    gfFrames,           \* history: self.frames as the scan saw it
    gfCalls,            \* history: calls begun
    gfSeen,             \* history: frames_received as the scan saw it
    \* ---- the ingestion thread inside _parse_mjpeg_stream
    running,            \* self.running
    wire,               \* bytes the upstream has sent and iter_content has not returned yet
    sent,               \* history: the bytes iter_content has returned on this connection
    buffer,             \* local `buffer` (bytearray)
    parsePc,            \* "reading" | "returned"
    lastYield,          \* history: frames the last chunk completed
    kept,               \* history: leading bytes of buffer that a trim left in it
    \* ---- FrameCache start / stop and its ingestion threads
    fetch_thread,       \* self.fetch_thread: a thread id, 0 for None
    upstream_errors,    \* self.upstream_errors
    wpc,                \* per ingestion thread: where it is in _fetch_worker
    wLeft,              \* per ingestion thread: complete frames still in its buffer
    cpc,                \* per caller thread: where it is in start() / stop()
    cjoin,              \* per caller thread: the thread stop() joins
    stopReturned,       \* history: a stop() has returned, and no start() has
                        \* set the running flag since that stop() cleared it
    \* ---- CachedMediaRelay (src/cached_relay.py:44-70) and its viewers
    clients,            \* self.clients: the registered viewer queues
    queue,              \* per viewer: its queue.Queue, oldest envelope first
    last_frame,         \* self.last_frame: an envelope number, 0 for None
    distCount,          \* envelopes built so far; envelope n wraps the n-th frame served
    dpc,                \* where the distribution thread is (see RelaySpec)
    fanTodo,            \* _distribute_frame: clients of the snapshot not visited yet
    fanCur,             \* _distribute_frame: local `client_queue` (0: none)
    dead_clients,       \* _distribute_frame: local `dead_clients`
    vpc,                \* per viewer: "absent" | "reading" | "gone"
    hasRead,            \* history, per viewer: it has taken an envelope from its queue
    passesSeen,         \* history, per viewer: fan-out passes begun while registered
    fanGot,             \* history: viewers the current/last pass enqueued its envelope to
    hadRoom,            \* history: viewers registered with a non-full queue when
                        \* the current/last pass began
    lastEnq,            \* history, per viewer: the envelope enqueued for it last (0: none)
    passTimes,          \* history: the clock at the start of the last two fan-out passes
    \* ---- the distribution thread reading the cache (FeedSpec)
    sw_current_time,    \* _stream_worker local `current_time`
    last_frame_time,    \* _stream_worker local `last_frame_time`
    envSeq,             \* history: envSeq[n] is the sequence number of the frame
                        \* envelope n wraps
    relay_running,      \* CachedMediaRelay.running, read by `while self.running`
    \* ---- one _fetch_worker thread and its reconnect back-off (BackoffSpec)
    bpc,                \* where the thread is (see BackoffSpec)
    retry_delay,        \* _fetch_worker local `retry_delay`, in 1/512 s
    sleepLog,           \* history: the time.sleep(retry_delay) arguments since the
                        \* last successful connection, oldest first
    reconnected,        \* history: a connection succeeded after at least one sleep
    \* ---- the relay registry of main_app.py (RegistrySpec)
    media_relays,       \* _media_relays: per URL the relay stored for it (0: no entry)
    media_lock,         \* _media_lock: the thread holding it (0: free)
    lpc,                \* per thread: where it is in get_media_relay / cleanup_relays
    lurl,               \* per thread: parameter `stream_url` (0: not in a call)
    lrelay,             \* per thread: local `relay` (0: None)
    relayUrl,           \* history: relayUrl[r] is the URL relay r was constructed for
    starts,             \* history: starts[r] counts the start() calls on relay r
    stops,              \* history: stops[r] counts the stop() calls on relay r
    got,                \* history, per thread: the relay its last lookup returned
                        \* (0: none since the registry was last cleared)
    cleanups,           \* history: cleanup_relays calls begun
    \* ---- one request to stream_proxy and its generator (ConsumerSpec)
    gpc,                \* where the request is (see ConsumerSpec)
    waited,             \* generate() local `waited`, in sleeps of 0.2 s
    consecutive_timeouts,   \* generate() local `consecutive_timeouts`
    removeCalls,        \* history: remove_client calls made for the request's queue
    \* ---- one thread calling CachedMediaRelay.start() / stop() (ShutdownSpec)
    rpc,                \* where that thread is (see ShutdownSpec)
    stream_thread,      \* self.stream_thread: threads created so far, 0 for None
    \* ---- the envelope the distribution thread builds (EnvelopeSpec)
    frame_data,         \* _stream_worker local `frame_data` (<<>>: None)
    multipart_frame,    \* _stream_worker local `multipart_frame`
    last_frame_bytes,   \* the bytes of self.last_frame (<<>>: None)
    \* ---- the three locks and the threads that take them (LockSpec)
    lock,               \* per lock ("media", "relay", "cache"): the thread holding it
    tpc,                \* per thread: where it is (see LockSpec)
    access              \* history: what the last step did with self.clients, and
                        \* whether its thread held the relay's lock

cfgVars == <<now, cache_duration, serve_delay>>
storeVars == <<frames, sequence_counter, frames_received, lastRecorded>>
cfVars == <<cfPc, cfTimestamp, cfData>>
gfVars == <<frames_served, gfPc, gfTime, gfResult, gfFrames, gfCalls, gfSeen>>
cacheVars == <<cfgVars, storeVars, cfVars, gfVars>>
parseVars == <<running, wire, sent, buffer, parsePc, lastYield, kept>>

lifeVars == <<fetch_thread, upstream_errors, wpc, wLeft, cpc, cjoin, stopReturned>>

relayHist == <<lastEnq, passTimes>>
relayVars == <<clients, queue, last_frame, distCount, dpc, fanTodo, fanCur,
               dead_clients, vpc, hasRead, passesSeen, fanGot, hadRoom, relayHist>>
feedVars == <<sw_current_time, last_frame_time, envSeq, relay_running>>

backoffVars == <<bpc, retry_delay, sleepLog, reconnected>>

registryVars == <<media_relays, media_lock, lpc, lurl, lrelay, relayUrl, starts,
                  stops, got, cleanups>>

consumerVars == <<gpc, waited, consecutive_timeouts, removeCalls>>
shutdownVars == <<rpc, stream_thread>>
envelopeVars == <<frame_data, multipart_frame, last_frame_bytes>>
lockVars == <<lock, tpc, access>>

vars == <<cacheVars, parseVars, lifeVars, relayVars, feedVars, backoffVars,
          registryVars, lockVars, envelopeVars, shutdownVars, consumerVars>>

\* What the actions of each specification leave alone.
outsideCache == <<parseVars, lifeVars, relayVars, feedVars, backoffVars, registryVars, lockVars, envelopeVars, shutdownVars, consumerVars>>
outsideParse == <<lifeVars, relayVars, feedVars, backoffVars, registryVars, lockVars, envelopeVars, shutdownVars, consumerVars>>
outsideLife == <<cfgVars, cfVars, gfVars, wire, sent, buffer, parsePc, lastYield, kept,
                 relayVars, feedVars, backoffVars, registryVars, lockVars, envelopeVars, shutdownVars, consumerVars>>
outsideRelay == <<cacheVars, parseVars, lifeVars, feedVars, backoffVars, registryVars, lockVars, envelopeVars, shutdownVars, consumerVars>>
outsideBackoff == <<cacheVars, wire, sent, buffer, parsePc, lastYield, kept, fetch_thread,
                    wpc, wLeft, cpc, cjoin, stopReturned, relayVars, feedVars,
                    registryVars, lockVars, envelopeVars, shutdownVars, consumerVars>>
outsideRegistry == <<cacheVars, parseVars, lifeVars, relayVars, feedVars, backoffVars,
                     consumerVars, shutdownVars, envelopeVars, lockVars>>

\* ------------------------------------------------------------- CachedFrame
CachedFrame(d, t, s) == [data |-> d, timestamp |-> t, sequence |-> s]

\* Python's None where a CachedFrame is expected.
NoFrame == [data |-> <<>>, timestamp |-> -1, sequence |-> -1]

\* The JPEG payload of the frames CacheSpec records (their bytes play no part
\* in the timing operations; ParseSpec records the frames of real streams).
Blobs == {<<FF, D8, FF, D9>>}

\* The mutant of NextSequence: the counter is not advanced.
NextSequenceStuck(counter) == counter

\* Another mutant of NextSequence: the counter runs backwards.
NextSequenceDown(counter) == counter - 1

\* _cache_frame, line 228: self.sequence_counter += 1 (Python integers do not
\* overflow).
NextSequence(counter) == counter + 1

\* ------------------------------------------------------ _cache_frame, purge
\* Mutant of PurgeOld: the comparison inverted (pops frames newer than the cutoff).
RECURSIVE PurgeOldInverted(_, _)
PurgeOldInverted(frs, cutoff_time) ==
    IF frs # <<>> /\ Head(frs).timestamp > cutoff_time
    THEN PurgeOldInverted(Tail(frs), cutoff_time)
    ELSE frs

\* while self.frames and self.frames[0].timestamp < cutoff_time: popleft()
RECURSIVE PurgeOld(_, _)
PurgeOld(frs, cutoff_time) ==
    IF frs # <<>> /\ Head(frs).timestamp < cutoff_time
    THEN PurgeOld(Tail(frs), cutoff_time)
    ELSE frs

\* Mutant of AppendAndPurge: self.frames.appendleft(cached_frame).
AppendLeftAndPurge(frs, frame, duration) ==
    PurgeOld(<<frame>> \o frs, frame.timestamp - duration)

\* The locked block of _cache_frame: append, then purge from the front.
AppendAndPurge(frs, frame, duration) ==
    PurgeOld(Append(frs, frame), frame.timestamp - duration)

\* --------------------------------------------------- get_frame_to_serve scan
\* Mutant of ScanNewestFirst: `for frame in self.frames`, oldest first.
RECURSIVE ScanForward(_, _, _)
ScanForward(frs, j, serve_time) ==
    IF j > Len(frs) THEN NoFrame
    ELSE IF frs[j].timestamp <= serve_time THEN frs[j]
    ELSE ScanForward(frs, j + 1, serve_time)

ScanOldestFirst(frs, i, serve_time) == ScanForward(frs, 1, serve_time)

\* for frame in reversed(self.frames): if frame.timestamp <= serve_time: break
RECURSIVE ScanNewestFirst(_, _, _)
ScanNewestFirst(frs, i, serve_time) ==
    IF i = 0 THEN NoFrame
    ELSE IF frs[i].timestamp <= serve_time THEN frs[i]
    ELSE ScanNewestFirst(frs, i - 1, serve_time)

\* Mutant of FrameToServe: serve_time computed without the delay.
FrameToServeNoDelay(frs, current_time, delay) ==
    ScanNewestFirst(frs, Len(frs), current_time)

FrameToServe(frs, current_time, delay) ==
    ScanNewestFirst(frs, Len(frs), current_time - delay)

\* ---------------------------------------------------------------- CacheSpec
CacheIdle ==
    /\ now = 0
    /\ frames = <<>>
    /\ sequence_counter = 0
    /\ frames_received = 0
    /\ frames_served = 0
    /\ cfPc = "idle"
    /\ cfTimestamp = 0
    /\ cfData = <<>>
    /\ lastRecorded = NoFrame
    /\ gfPc = "idle"
    /\ gfTime = 0
    /\ gfResult = NoFrame
    /\ gfFrames = <<>>
    /\ gfCalls = 0
    /\ gfSeen = 0

\* The parser's state when a connection opens, the cache running.
ParseIdle ==
    /\ running = TRUE
    /\ wire = <<>>
    /\ sent = <<>>
    /\ buffer = <<>>
    /\ parsePc = "reading"
    /\ lastYield = 0
    /\ kept = 0

\* One FrameCache after __init__ as start()/stop() see it: no thread yet.
LifeIdle ==
    /\ fetch_thread = 0
    /\ upstream_errors = 0
    /\ wpc = [w \in Workers |-> "unborn"]
    /\ wLeft = [w \in Workers |-> 0]
    /\ cpc = [c \in Callers |-> "idle"]
    /\ cjoin = [c \in Callers |-> 0]
    /\ stopReturned = FALSE

\* One CachedMediaRelay after __init__ (lines 44-70): no viewer, no envelope.
RelayNew ==
    /\ clients = {}
    /\ queue = [v \in Viewers |-> <<>>]
    /\ last_frame = 0
    /\ distCount = 0
    /\ fanTodo = {}
    /\ fanCur = 0
    /\ dead_clients = {}
    /\ vpc = [v \in Viewers |-> "absent"]
    /\ hasRead = [v \in Viewers |-> FALSE]
    /\ passesSeen = [v \in Viewers |-> 0]
    /\ fanGot = {}
    /\ hadRoom = {}
    /\ lastEnq = [v \in Viewers |-> 0]
    /\ passTimes = <<>>
    /\ sw_current_time = 0
    /\ last_frame_time = 0
    /\ envSeq = <<>>
    /\ gpc = "created"
    /\ waited = 0
    /\ consecutive_timeouts = 0
    /\ removeCalls = 0

\* The relay once start() has returned: its distribution thread is at the top
\* of its loop.
RelayIdle ==
    /\ RelayNew
    /\ dpc = "loop"
    /\ relay_running = TRUE

\* Nobody is inside CachedMediaRelay.start() or stop(), and no envelope has
\* been built.
ShutdownIdle ==
    /\ rpc = "idle"
    /\ stream_thread = 0
    /\ frame_data = <<>>
    /\ multipart_frame = <<>>
    /\ last_frame_bytes = <<>>

\* The threads of LockSpec: one per request to stream_proxy, the relay's
\* distribution thread, its cache's ingestion thread, a thread making status
\* queries and the thread running cleanup_relays.
NumLockViewers == 1
LockViewers == 1..NumLockViewers
TViewer(v) == <<"viewer", v>>
TDist == <<"dist", 0>>
TIngest == <<"ingest", 0>>
TQuery == <<"query", 0>>
TCleanup == <<"cleanup", 0>>
LockThreads == {TViewer(v) : v \in LockViewers} \cup {TDist, TIngest, TQuery, TCleanup}

\* _media_lock (main_app.py:321), CachedMediaRelay.lock (cached_relay.py:52)
\* and FrameCache.lock (frame_cache.py:68).
Locks == {"media", "relay", "cache"}

\* The holder of a lock nobody holds.
Free == <<"free", 0>>

\* A step that does not touch self.clients.
NoAccess == <<"none", "none", FALSE>>

\* No lock is held, no request is in progress, no relay exists yet.
LockIdle ==
    /\ lock = [l \in Locks |-> Free]
    /\ tpc = [t \in LockThreads |->
                IF t \in {TDist, TIngest} THEN "unborn" ELSE "idle"]
    /\ access = NoAccess

\* RETRY_DELAY_MIN, RETRY_DELAY_MAX (seconds, src/frame_cache.py:27-28) in units
\* of 1/512 s, and RETRY_DELAY_MULTIPLIER = 1.5 (line 29) as a fraction. Every
\* value retry_delay takes (1.5^k for k <= 9, then 30.0) is a whole number
\* of these units, as it is an exact binary float in the source.
RETRY_DELAY_MIN == 512
RETRY_DELAY_MAX == 15360
RETRY_DELAY_MULTIPLIER_NUM == 3
RETRY_DELAY_MULTIPLIER_DEN == 2

\* A _fetch_worker that has not been started.
BackoffIdle ==
    /\ bpc = "unborn"
    /\ retry_delay = RETRY_DELAY_MIN
    /\ sleepLog = <<>>
    /\ reconnected = FALSE

\* The registry at import time: empty, its lock free, nobody calling.
RegistryIdle ==
    /\ media_relays = [u \in Urls |-> 0]
    /\ media_lock = 0
    /\ lpc = [t \in Threads |-> "idle"]
    /\ lurl = [t \in Threads |-> 0]
    /\ lrelay = [t \in Threads |-> 0]
    /\ relayUrl = <<>>
    /\ starts = <<>>
    /\ stops = <<>>
    /\ got = [t \in Threads |-> 0]
    /\ cleanups = 0

\* The clock advances; nothing else reads it in the same step.
Tick ==
    /\ now < MaxTime
    /\ now' = now + 1
    /\ UNCHANGED <<cache_duration, serve_delay, storeVars, cfVars, gfVars, outsideCache>>

\* _cache_frame, line 216: timestamp = time.time(), before the lock.
CF_Stamp ==
    /\ cfPc = "idle"
    /\ frames_received < MaxFrames
    /\ \E d \in Blobs : cfData' = d
    /\ cfTimestamp' = now
    /\ cfPc' = "stamped"
    /\ UNCHANGED <<cfgVars, storeVars, gfVars, outsideCache>>

\* _cache_frame, lines 219-238: the locked block.
CF_Append ==
    /\ cfPc = "stamped"
    /\ LET frame == CachedFrame(cfData, cfTimestamp, sequence_counter) IN
        /\ frames' = AppendAndPurge(frames, frame, cache_duration)
        /\ lastRecorded' = frame
    /\ sequence_counter' = NextSequence(sequence_counter)
    /\ frames_received' = frames_received + 1
    /\ cfPc' = "idle"
    /\ cfTimestamp' = 0          \* the locals go out of scope
    /\ cfData' = <<>>
    /\ UNCHANGED <<cfgVars, gfVars, outsideCache>>

\* get_frame_to_serve, line 252: current_time = time.time(), before the lock.
GF_Time ==
    /\ gfPc \in {"idle", "returned"}
    /\ gfCalls < MaxCalls
    /\ gfTime' = now
    /\ gfCalls' = gfCalls + 1
    /\ gfPc' = "timed"
    /\ UNCHANGED <<cfgVars, storeVars, cfVars, frames_served, gfResult, gfFrames,
                   gfSeen, outsideCache>>

\* get_frame_to_serve, lines 256-274: the locked scan and the return.
GF_Scan ==
    /\ gfPc = "timed"
    /\ LET frame_to_serve == FrameToServe(frames, gfTime, serve_delay) IN
        /\ gfResult' = frame_to_serve
        /\ frames_served' = IF frame_to_serve # NoFrame
                            THEN frames_served + 1 ELSE frames_served
    /\ gfFrames' = frames
    /\ gfSeen' = frames_received
    /\ gfPc' = "returned"
    /\ UNCHANGED <<cfgVars, storeVars, cfVars, gfTime, gfCalls, outsideCache>>

CacheInit ==
    /\ CacheIdle
    /\ cache_duration \in 1..MaxDuration
    /\ serve_delay \in 0..MaxDelay
    /\ ParseIdle
    /\ LifeIdle
    /\ RelayIdle
    /\ BackoffIdle
    /\ RegistryIdle
    /\ ShutdownIdle
    /\ LockIdle

CacheNext == Tick \/ CF_Stamp \/ CF_Append \/ GF_Time \/ GF_Scan

CacheSpec == CacheInit /\ [][CacheNext]_vars

\* ------------------------------------------------------- claims on CacheSpec
\* No _cache_frame call is in progress and the last frame was recorded more
\* than cache_duration ago: the upstream has been silent for that long.
StalledPastRetention ==
    /\ lastRecorded # NoFrame
    /\ cfPc = "idle"
    /\ now - lastRecorded.timestamp > cache_duration

\* C1 (as claimed): once more than the retention duration has elapsed since
\* the last recorded frame with no further _cache_frame call, the retained
\* sequence is empty and a get_frame_to_serve() call made then returns none.
C1_EmptyAfterStall ==
    StalledPastRetention =>
        /\ frames = <<>>
        /\ (gfPc = "returned" /\ gfSeen = frames_received
              /\ gfTime - lastRecorded.timestamp > cache_duration)
            => gfResult = NoFrame

C7_NeverNewerThanDelay ==
    (gfPc = "returned" /\ gfResult # NoFrame)
        => gfResult.timestamp <= gfTime - serve_delay

\* C7 witness: a call returned a frame while a newer retained frame, not yet
\* serve_delay old, was passed over.
C7_Witness ==
    /\ gfPc = "returned"
    /\ gfResult # NoFrame
    /\ serve_delay > 0
    /\ \E i \in 1..Len(gfFrames) : gfFrames[i].timestamp > gfTime - serve_delay

\* Indices of the frames old enough to serve at serve_time.
Qualifying(frs, serve_time) ==
    {i \in 1..Len(frs) : frs[i].timestamp <= serve_time}

\* C8: the call returns the newest retained frame (latest in arrival order)
\* with timestamp <= now - serve_delay, and none exactly when no retained
\* frame qualifies; serve_delay after the last frame was recorded, it returns
\* that last frame.
C8_NewestQualifying ==
    gfPc = "returned" =>
        LET q == Qualifying(gfFrames, gfTime - serve_delay) IN
        /\ (gfResult = NoFrame) <=> (q = {})
        /\ q # {} => gfResult = gfFrames[CHOOSE i \in q : \A j \in q : j <= i]
        /\ (gfFrames # <<>>
              /\ gfTime >= gfFrames[Len(gfFrames)].timestamp + serve_delay)
            => gfResult = gfFrames[Len(gfFrames)]

\* C8 witness: several frames qualify, some are still too new, and the call
\* returned; and a call made exactly serve_delay after the last frame.
C8_Witness ==
    /\ gfPc = "returned"
    /\ Cardinality(Qualifying(gfFrames, gfTime - serve_delay)) >= 2
    /\ Len(gfFrames) > Cardinality(Qualifying(gfFrames, gfTime - serve_delay))

\* C24 (as claimed): the retained frames carry strictly increasing sequence
\* numbers and strictly increasing timestamps, oldest first.
C24_StrictlyIncreasingTimestamps ==
    \A i, j \in 1..Len(frames) :
        i < j => /\ frames[i].sequence < frames[j].sequence
                 /\ frames[i].timestamp < frames[j].timestamp

\* C24 (amended): the retained frames carry strictly increasing sequence
\* numbers and non-decreasing timestamps, oldest first, two frames stamped
\* at the same clock reading having equal timestamps; and a timestamp, read
\* before the lock is taken, is never later than the clock at the append.
C24_SortedByTimestamp ==
    /\ \A i, j \in 1..Len(frames) :
          i < j => /\ frames[i].sequence < frames[j].sequence
                   /\ frames[i].timestamp <= frames[j].timestamp
    /\ cfPc = "stamped" => cfTimestamp <= now
    /\ \A i \in 1..Len(frames) : frames[i].timestamp <= now

\* Two frames stamped at the same clock reading are retained, and a third
\* was stamped later, before the clock moved on again: it will be appended
\* with a timestamp older than the time of the append.
C24_Witness ==
    /\ Len(frames) = 2
    /\ frames[1].timestamp = frames[2].timestamp
    /\ cfPc = "stamped"
    /\ cfTimestamp > frames[2].timestamp
    /\ cfTimestamp < now

\* ============================================================== ParseSpec
\* Program constants of frame_cache.py, scaled down to byte counts a model can
\* enumerate (source: 4 MiB, 1 MiB, 4 KiB). The chunk size is kept large
\* enough for one chunk to complete two frames, as a 4096-byte chunk can.
MAX_BUFFER_SIZE == 4
BUFFER_TRIM_SIZE == 2
FETCH_CHUNK_SIZE == 5

MaxStream == 8      \* bytes the upstream sends on the connection

Bytes == {FF, D8, D9, XX}

Min(a, b) == IF a < b THEN a ELSE b

\* bytearray.find(pat, from) for a two-byte pattern, 1-based: the lowest index
\* i >= from with buf[i..i+1] = pat, and 0 where Python returns -1.
RECURSIVE Find(_, _, _)
Find(buf, pat, from) ==
    IF from + 1 > Len(buf) THEN 0
    ELSE IF buf[from] = pat[1] /\ buf[from + 1] = pat[2] THEN from
    ELSE Find(buf, pat, from + 1)

\* buffer[-BUFFER_TRIM_SIZE:]
TrimTail(buf) ==
    IF Len(buf) <= BUFFER_TRIM_SIZE THEN buf
    ELSE SubSeq(buf, Len(buf) - BUFFER_TRIM_SIZE + 1, Len(buf))

\* Mutant of ExtractFrames: the end marker is searched from the start marker
\* itself and the frame is cut before the end marker's second byte.
RECURSIVE ExtractFramesShort(_, _)
ExtractFramesShort(buf, found) ==
    LET start == Find(buf, SOI, 1) IN
    IF start = 0 THEN [buffer |-> buf, found |-> found]
    ELSE
        LET end == Find(buf, EOI, start + 2) IN
        IF end = 0
        THEN [buffer |-> IF Len(buf) > MAX_BUFFER_SIZE THEN TrimTail(buf) ELSE buf,
              found |-> found]
        ELSE ExtractFramesShort(SubSeq(buf, end + 2, Len(buf)),
                                Append(found, SubSeq(buf, start, end)))

\* The `while True:` loop of _parse_mjpeg_stream (lines 181-204) on the buffer
\* after a chunk was appended: the buffer it leaves and the frames it hands to
\* _cache_frame, in order.
RECURSIVE ExtractFrames(_, _)
ExtractFrames(buf, found) ==
    LET start == Find(buf, SOI, 1) IN
    IF start = 0 THEN [buffer |-> buf, found |-> found]
    ELSE
        LET end == Find(buf, EOI, start + 2) IN
        IF end = 0
        THEN [buffer |-> IF Len(buf) > MAX_BUFFER_SIZE THEN TrimTail(buf) ELSE buf,
              found |-> found]
        ELSE ExtractFrames(SubSeq(buf, end + 2, Len(buf)),
                           Append(found, SubSeq(buf, start, end + 1)))

\* The buffer as the `while True:` loop leaves it before the length test of
\* line 193: every complete frame deleted (line 201), nothing trimmed.
RECURSIVE Unconsumed(_)
Unconsumed(buf) ==
    LET start == Find(buf, SOI, 1) IN
    IF start = 0 THEN buf
    ELSE
        LET end == Find(buf, EOI, start + 2) IN
        IF end = 0 THEN buf ELSE Unconsumed(SubSeq(buf, end + 2, Len(buf)))

\* _cache_frame called once per extracted frame, all at clock value t.
RECURSIVE CacheAll(_, _, _, _, _)
CacheAll(frs, counter, datas, t, duration) ==
    IF datas = <<>> THEN frs
    ELSE CacheAll(AppendAndPurge(frs, CachedFrame(Head(datas), t, counter), duration),
                  counter + 1, Tail(datas), t, duration)

ParseInit ==
    /\ CacheIdle
    /\ cache_duration = MaxDuration
    /\ serve_delay = 0
    /\ ParseIdle
    /\ LifeIdle
    /\ RelayIdle
    /\ BackoffIdle
    /\ RegistryIdle
    /\ ShutdownIdle
    /\ LockIdle

\* The camera writes one more byte to the connection.
U_Send ==
    /\ parsePc = "reading"
    /\ Len(sent) + Len(wire) < MaxStream
    /\ Len(wire) < FETCH_CHUNK_SIZE
    /\ \E b \in Bytes : wire' = Append(wire, b)
    /\ UNCHANGED <<cacheVars, running, sent, buffer, parsePc, lastYield, kept, outsideParse>>

\* One iteration of `for chunk in response.iter_content(...)` (lines 168-204):
\* iter_content returns what the upstream has sent since the last chunk, at
\* most FETCH_CHUNK_SIZE bytes (every way of cutting the stream into chunks
\* is an interleaving of U_Send and P_Chunk); nothing pending is the empty chunk.
P_Chunk ==
    /\ parsePc = "reading"
    /\ IF ~running
       THEN \* if not self.running: break
            /\ parsePc' = "returned"
            /\ UNCHANGED <<cacheVars, running, wire, sent, buffer, lastYield, kept, outsideParse>>
       ELSE IF wire = <<>>
       THEN \* if not chunk: continue
            UNCHANGED <<cacheVars, parseVars, outsideParse>>
       ELSE \E r \in {ExtractFrames(buffer \o wire, <<>>)} :
            LET k == Len(r.found) IN
            /\ wire' = <<>>
            /\ sent' = sent \o wire
            /\ buffer' = r.buffer
            /\ lastYield' = k
            /\ kept' = IF r.buffer # Unconsumed(buffer \o wire)
                          THEN Len(r.buffer)    \* line 194 ran: all of it is the tail
                       ELSE IF k = 0 THEN kept  \* nothing deleted
                       ELSE 0                   \* line 201 deleted past the tail
            /\ frames' = CacheAll(frames, sequence_counter, r.found, now, cache_duration)
            /\ sequence_counter' = sequence_counter + k
            /\ frames_received' = frames_received + k
            /\ lastRecorded' = IF k = 0 THEN lastRecorded
                                ELSE CachedFrame(r.found[k], now, sequence_counter + k - 1)
            /\ UNCHANGED <<cfgVars, cfVars, gfVars, running, parsePc, outsideParse>>

\* The upstream closes the connection after everything it sent was read: the
\* for loop ends and _parse_mjpeg_stream returns.
P_End ==
    /\ parsePc = "reading"
    /\ wire = <<>>
    /\ parsePc' = "returned"
    /\ UNCHANGED <<cacheVars, running, wire, sent, buffer, lastYield, kept, outsideParse>>

ParseNext == U_Send \/ P_Chunk \/ P_End

ParseSpec == ParseInit /\ [][ParseNext]_vars

\* ------------------------------------------------------- claims on ParseSpec
\* C3 (as claimed): whatever bytes the upstream sends, the accumulation buffer
\* never holds more than MAX_BUFFER_SIZE bytes once a chunk has been processed.
C3_BufferWithinCeiling == Len(buffer) <= MAX_BUFFER_SIZE

\* s holds the two-byte marker pat somewhere.
Contains(s, pat) ==
    \E i \in 1..(Len(s) - 1) : s[i] = pat[1] /\ s[i + 1] = pat[2]

\* A blob of C9: starts with FF D8, ends with FF D9, neither marker in between.
IsBlob(b) ==
    /\ Len(b) >= 4
    /\ SubSeq(b, 1, 2) = SOI
    /\ SubSeq(b, Len(b) - 1, Len(b)) = EOI
    /\ ~Contains(SubSeq(b, 3, Len(b) - 2), SOI)
    /\ ~Contains(SubSeq(b, 3, Len(b) - 2), EOI)

\* Every way of writing s as a concatenation of blobs (as a sequence of blobs).
RECURSIVE BlobSplits(_)
BlobSplits(s) ==
    IF s = <<>> THEN {<<>>}
    ELSE UNION { { <<SubSeq(s, 1, n)>> \o rest :
                     rest \in BlobSplits(SubSeq(s, n + 1, Len(s))) } :
                 n \in {m \in 4..Len(s) : IsBlob(SubSeq(s, 1, m))} }

\* The payloads of the recorded frames, in the order they were recorded
\* (nothing is purged in ParseSpec: the clock stands still).
RecordedData == [i \in 1..Len(frames) |-> frames[i].data]

\* C9 (as claimed): the stream read so far is a concatenation of K blobs of
\* any size, cut into chunks in any way: exactly those K blobs were recorded,
\* in stream order, byte-identical.
C9_RoundTripAnySize ==
    wire = <<>> =>
        \A blobs \in BlobSplits(sent) :
            frames_received = Len(blobs) /\ RecordedData = blobs

\* C9 (amended): the same, for blobs of at most MAX_BUFFER_SIZE + 1 bytes (no
\* incomplete prefix of such a blob exceeds the ceiling, so none is trimmed).
C9_RoundTripWithinCeiling ==
    wire = <<>> =>
        \A blobs \in BlobSplits(sent) :
            (\A i \in 1..Len(blobs) : Len(blobs[i]) <= MAX_BUFFER_SIZE + 1)
                => frames_received = Len(blobs) /\ RecordedData = blobs

\* C9 witness: a stream of two blobs was read and recorded, the second frame
\* completed by the same chunk as the first (so the chunk boundary before it
\* fell inside the first blob).
C9_Witness ==
    /\ wire = <<>>
    /\ lastYield = 2
    /\ \E blobs \in BlobSplits(sent) : Len(blobs) = 2 /\ RecordedData = blobs

\* s occurs in t as a run of consecutive elements.
IsRunOf(s, t) ==
    \E i \in 0..(Len(t) - Len(s)) : SubSeq(t, i + 1, i + Len(s)) = s

\* C16 (as claimed): every frame a chunk records begins with FF D8, ends with
\* FF D9 and is a run of consecutive bytes of the connection's stream, and it
\* holds none of the bytes that the last trim left in the buffer.
C16_OnlyCompleteFramesRecorded ==
    [][frames_received' > frames_received =>
          /\ \A i \in (Len(frames) + 1)..Len(frames') :
                LET d == frames'[i].data IN
                /\ Len(d) >= 4
                /\ SubSeq(d, 1, 2) = SOI
                /\ SubSeq(d, Len(d) - 1, Len(d)) = EOI
                /\ IsRunOf(d, sent')
          /\ ~(kept > 0 /\ Find(buffer \o wire, SOI, 1) <= kept)]_vars


\* =============================================================== LifeSpec
\* start() and stop() called from NumCallers threads, and the ingestion
\* threads they create. A thread's chunk is abstracted to the number of
\* complete frames it adds to the thread's buffer (ParseSpec has the bytes).
\*
\* wpc:  "unborn"   not created yet
\*       "while"    line 119, about to test self.running
\*       "connect"  lines 125-133, inside requests.get / raise_for_status
\*       "iter"     line 168, blocked in iter_content for the next chunk
\*       "chunk"    line 170, holding a chunk, about to test self.running
\*       "extract"  lines 181-204, the `while True:` loop with frames to cache
\*       "except"   line 141, an exception reached the handler
\*       "sleep"    line 149, time.sleep(retry_delay)
\*       "dead"     _fetch_worker returned
\* cpc:  "idle" | "start_set" (line 89) | "start_spawn" (lines 93-94)
\*       | "stop_read" (line 105) | "stop_join" (line 106)

Alive == {w \in Workers : wpc[w] \notin {"unborn", "dead"}}
Unborn == {w \in Workers : wpc[w] = "unborn"}
Starting == {c \in Callers : cpc[c] \in {"start_set", "start_spawn"}}

\* The calling threads are interchangeable: the next start() or stop() is made
\* by the lowest-numbered thread that is not inside a call.
NextCaller(c) == cpc[c] = "idle" /\ \A d \in Callers : d < c => cpc[d] # "idle"

RECURSIVE SumLeft(_)
SumLeft(ws) ==
    IF ws = {} THEN 0
    ELSE LET w == CHOOSE x \in ws : TRUE IN wLeft[w] + SumLeft(ws \ {w})

LifeInit ==
    /\ CacheIdle
    /\ cache_duration = MaxDuration
    /\ serve_delay = 0
    /\ running = FALSE
    /\ wire = <<>>
    /\ sent = <<>>
    /\ buffer = <<>>
    /\ parsePc = "reading"
    /\ lastYield = 0
    /\ kept = 0
    /\ LifeIdle
    /\ RelayIdle
    /\ BackoffIdle
    /\ RegistryIdle
    /\ ShutdownIdle
    /\ LockIdle

\* start(), lines 85-86: `if self.running: return`. A running cache returns at
\* once; otherwise the caller goes on to line 89. (The model creates at most
\* MaxWorkers threads: a start() that would need one more is not begun.)
S_Check(c) ==
    /\ NextCaller(c)
    /\ Cardinality(Unborn) > Cardinality(Starting)
    /\ IF running
       THEN UNCHANGED cpc
       ELSE cpc' = [cpc EXCEPT ![c] = "start_set"]
    /\ UNCHANGED <<running, storeVars, fetch_thread, upstream_errors, wpc, wLeft,
                   cjoin, stopReturned, outsideLife>>

\* start(), line 89: self.running = True
S_Set(c) ==
    /\ cpc[c] = "start_set"
    /\ running' = TRUE
    /\ stopReturned' = FALSE
    /\ cpc' = [cpc EXCEPT ![c] = "start_spawn"]
    /\ UNCHANGED <<storeVars, fetch_thread, upstream_errors, wpc, wLeft, cjoin,
                   outsideLife>>

\* start(), lines 93-94: the thread is created, stored and started.
S_Spawn(c) ==
    /\ cpc[c] = "start_spawn"
    /\ LET w == CHOOSE x \in Unborn : \A y \in Unborn : x <= y IN
        /\ fetch_thread' = w
        /\ wpc' = [wpc EXCEPT ![w] = "while"]
    /\ cpc' = [cpc EXCEPT ![c] = "idle"]
    /\ UNCHANGED <<running, storeVars, upstream_errors, wLeft, cjoin,
                   stopReturned, outsideLife>>

\* stop(), line 102: self.running = False
T_Clear(c) ==
    /\ NextCaller(c)
    /\ running' = FALSE
    /\ cpc' = [cpc EXCEPT ![c] = "stop_read"]
    /\ UNCHANGED <<storeVars, fetch_thread, upstream_errors, wpc, wLeft, cjoin,
                   stopReturned, outsideLife>>

\* stop(), line 105: `if self.fetch_thread:`; with no thread stop() returns.
T_Read(c) ==
    /\ cpc[c] = "stop_read"
    /\ IF fetch_thread = 0
       THEN /\ cpc' = [cpc EXCEPT ![c] = "idle"]
            /\ stopReturned' = ~running
            /\ UNCHANGED cjoin
       ELSE /\ cpc' = [cpc EXCEPT ![c] = "stop_join"]
            /\ cjoin' = [cjoin EXCEPT ![c] = fetch_thread]
            /\ UNCHANGED stopReturned
    /\ UNCHANGED <<running, storeVars, fetch_thread, upstream_errors, wpc, wLeft,
                   outsideLife>>

\* join(timeout=5) returns because the thread has exited ...
JoinExited(c) == wpc[cjoin[c]] = "dead"

\* ... or because five seconds passed with the thread still alive.
JoinTimedOut(c) == wpc[cjoin[c]] # "dead"

\* stop(), lines 106-108: the join returns either way, and stop() returns.
T_Join(c) ==
    /\ cpc[c] = "stop_join"
    /\ \/ JoinExited(c)
       \/ JoinTimedOut(c)
    /\ cpc' = [cpc EXCEPT ![c] = "idle"]
    /\ cjoin' = [cjoin EXCEPT ![c] = 0]
    /\ stopReturned' = ~running
    /\ UNCHANGED <<running, storeVars, fetch_thread, upstream_errors, wpc, wLeft,
                   outsideLife>>

\* A step of ingestion thread w that changes only its position.
Goto(w, where) ==
    /\ wpc' = [wpc EXCEPT ![w] = where]
    /\ UNCHANGED <<running, storeVars, fetch_thread, upstream_errors, wLeft, cpc,
                   cjoin, stopReturned, outsideLife>>

\* _fetch_worker, line 119: while self.running
W_While(w) ==
    /\ wpc[w] = "while"
    /\ Goto(w, IF running THEN "connect" ELSE "dead")

\* _fetch_worker, lines 125-139: the request succeeds and parsing begins ...
W_Connected(w) ==
    /\ wpc[w] = "connect"
    /\ Goto(w, "iter")

\* ... or requests.get / raise_for_status raises.
W_ConnectFailed(w) ==
    /\ wpc[w] = "connect"
    /\ upstream_errors < MaxErrors
    /\ Goto(w, "except")

\* _parse_mjpeg_stream, line 168: iter_content returns the next chunk ...
W_ChunkArrives(w) ==
    /\ wpc[w] = "iter"
    /\ Goto(w, "chunk")

\* ... or the response body ends: the for loop ends, the function returns ...
W_StreamEnds(w) ==
    /\ wpc[w] = "iter"
    /\ Goto(w, "while")

\* ... or the read raises (lines 206-208 re-raise to _fetch_worker).
W_ReadFailed(w) ==
    /\ wpc[w] = "iter"
    /\ upstream_errors < MaxErrors
    /\ Goto(w, "except")

\* The mutant of W_Chunk: the parse loop without `if not self.running: break`.
W_ChunkNoBreak(w) ==
    /\ wpc[w] = "chunk"
    /\ \E k \in 0..MaxPerChunk :
            /\ frames_received + SumLeft(Workers) + k <= MaxLifeFrames
            /\ wLeft' = [wLeft EXCEPT ![w] = k]
            /\ wpc' = [wpc EXCEPT ![w] = IF k = 0 THEN "iter" ELSE "extract"]
            /\ UNCHANGED <<running, storeVars, fetch_thread, upstream_errors, cpc,
                           cjoin, stopReturned, outsideLife>>

\* _parse_mjpeg_stream, lines 170-178: `if not self.running: break`, else the
\* chunk is appended to the buffer, where it completes k frames.
W_Chunk(w) ==
    /\ wpc[w] = "chunk"
    /\ IF ~running
       THEN Goto(w, "while")
       ELSE \E k \in 0..MaxPerChunk :
            /\ frames_received + SumLeft(Workers) + k <= MaxLifeFrames
            /\ wLeft' = [wLeft EXCEPT ![w] = k]
            /\ wpc' = [wpc EXCEPT ![w] = IF k = 0 THEN "iter" ELSE "extract"]
            /\ UNCHANGED <<running, storeVars, fetch_thread, upstream_errors, cpc,
                           cjoin, stopReturned, outsideLife>>

\* _parse_mjpeg_stream, lines 181-204: one turn of the `while True:` loop that
\* finds a complete frame and calls _cache_frame (lines 210-238).
W_Extract(w) ==
    /\ wpc[w] = "extract"
    /\ LET frame == CachedFrame(CHOOSE d \in Blobs : TRUE, now, sequence_counter) IN
        /\ frames' = AppendAndPurge(frames, frame, cache_duration)
        /\ lastRecorded' = frame
    /\ sequence_counter' = NextSequence(sequence_counter)
    /\ frames_received' = frames_received + 1
    /\ wLeft' = [wLeft EXCEPT ![w] = wLeft[w] - 1]
    /\ wpc' = [wpc EXCEPT ![w] = IF wLeft[w] = 1 THEN "iter" ELSE "extract"]
    /\ UNCHANGED <<running, fetch_thread, upstream_errors, cpc, cjoin,
                   stopReturned, outsideLife>>

\* _fetch_worker, lines 141-147: the handler counts the error and sleeps only
\* if the cache is still running.
W_Except(w) ==
    /\ wpc[w] = "except"
    /\ upstream_errors' = upstream_errors + 1
    /\ wpc' = [wpc EXCEPT ![w] = IF running THEN "sleep" ELSE "while"]
    /\ UNCHANGED <<running, storeVars, fetch_thread, wLeft, cpc, cjoin,
                   stopReturned, outsideLife>>

\* _fetch_worker, lines 149-153: time.sleep(retry_delay) returns.
W_Slept(w) ==
    /\ wpc[w] = "sleep"
    /\ Goto(w, "while")

LifeNext ==
    \/ \E c \in Callers :
          S_Check(c) \/ S_Set(c) \/ S_Spawn(c) \/ T_Clear(c) \/ T_Read(c) \/ T_Join(c)
    \/ \E w \in Workers :
          \/ W_While(w) \/ W_Connected(w) \/ W_ConnectFailed(w)
          \/ W_ChunkArrives(w) \/ W_StreamEnds(w) \/ W_ReadFailed(w)
          \/ W_Chunk(w) \/ W_Extract(w) \/ W_Except(w) \/ W_Slept(w)

LifeSpec == LifeInit /\ [][LifeNext]_vars

\* -------------------------------------------------------- claims on LifeSpec
\* C5 (as claimed): after any sequence of start() and stop() calls at most one
\* ingestion task of the FrameCache is alive.
C5_AtMostOneIngestionTask == Cardinality(Alive) <= 1

\* C12: the frames recorded by one FrameCache, in the order they were appended
\* (none is purged in LifeSpec, where the clock stands still), carry strictly
\* increasing sequence numbers, whichever thread recorded them.
C12_SequenceStrictlyIncreasing ==
    /\ Len(frames) = frames_received
    /\ \A i, j \in 1..Len(frames) :
          i < j => frames[i].sequence < frames[j].sequence

\* Two ingestion threads are alive and two frames have been recorded.
C12_Witness ==
    /\ Cardinality(Alive) = 2
    /\ Len(frames) >= 2
    /\ frames[1].sequence = 0 /\ frames[2].sequence = 1

\* C6 (as claimed): once stop() has returned (and until a start() sets the
\* running flag again) no frame is appended to the retained sequence.
C6_NoAppendAfterStop ==
    [][stopReturned => frames_received' = frames_received]_vars

\* ====================================================================
\* RelaySpec: the distribution thread of one CachedMediaRelay fanning envelopes
\* out to its viewers' queues, and the viewers joining, reading and leaving.
\* Envelope n wraps the n-th frame get_frame_to_serve() handed to the thread;
\* a queue holds envelope numbers. self.lock (line 52) is held by the
\* distribution thread from D_Begin to the end of its pass; add_client and
\* remove_client take it for one short block each, so they are single steps
\* that wait while a pass is under way. A viewer's queue.get() takes no relay
\* lock and interleaves with the steps of a pass.
\* ====================================================================

CLIENT_QUEUE_SIZE == 2     \* src/cached_relay.py:18 is 50; scaled down

\* True while _distribute_frame holds self.lock.
InPass == dpc \in {"fan", "full", "retry"}

RelayInit ==
    /\ CacheIdle
    /\ cache_duration = MaxDuration
    /\ serve_delay = 0
    /\ ParseIdle
    /\ LifeIdle
    /\ RelayIdle
    /\ BackoffIdle
    /\ RegistryIdle
    /\ ShutdownIdle
    /\ LockIdle

\* The mutant of Seed: the new queue is left empty.
SeedNothing(last) == <<>>

\* add_client, lines 127-133: `if self.last_frame:` put_nowait(self.last_frame)
\* into the queue just created (empty, capacity CLIENT_QUEUE_SIZE >= 1, so
\* queue.Full, which line 131 would swallow, is not raised).
Seed(last) == IF last # 0 THEN <<last>> ELSE <<>>

\* stream_proxy, main_app.py line 529: relay.add_client() (lines 116-137): a new
\* queue joins self.clients and is seeded with last_frame when there is one.
V_Join(v) ==
    /\ vpc[v] = "absent"
    /\ ~InPass
    /\ clients' = clients \cup {v}
    /\ queue' = [queue EXCEPT ![v] = Seed(last_frame)]
    /\ lastEnq' = [lastEnq EXCEPT ![v] = last_frame]
    /\ vpc' = [vpc EXCEPT ![v] = "reading"]
    /\ UNCHANGED <<last_frame, distCount, dpc, fanTodo, fanCur, dead_clients,
                   hasRead, passesSeen, fanGot, hadRoom, passTimes, outsideRelay>>

\* generate(), main_app.py line 548: client_queue.get(timeout=...) returns the
\* oldest queued envelope.
V_Get(v) ==
    /\ vpc[v] = "reading"
    /\ queue[v] # <<>>
    /\ queue' = [queue EXCEPT ![v] = Tail(@)]
    /\ hasRead' = [hasRead EXCEPT ![v] = TRUE]
    /\ UNCHANGED <<clients, last_frame, distCount, dpc, fanTodo, fanCur,
                   dead_clients, vpc, passesSeen, fanGot, hadRoom, relayHist, outsideRelay>>

\* The mutant of Discard: the set is left as it is.
DiscardNothing(set, q) == set

\* remove_client, line 144: self.clients.discard(client_queue); set.discard
\* raises nothing for an element that is not in the set.
Discard(set, q) == set \ {q}

\* generate(), main_app.py lines 542 / 561: relay.remove_client() (139-146).
V_Leave(v) ==
    /\ vpc[v] = "reading"
    /\ ~InPass
    /\ clients' = Discard(clients, v)
    /\ vpc' = [vpc EXCEPT ![v] = "gone"]
    /\ queue' = [queue EXCEPT ![v] = <<>>]    \* the queue is garbage from here on
    /\ UNCHANGED <<last_frame, distCount, dpc, fanTodo, fanCur,
                   dead_clients, hasRead, passesSeen, fanGot, hadRoom, relayHist, outsideRelay>>

\* _stream_worker, lines 159-187: the rate limit has passed, the cache hands
\* over a frame, the envelope is built and stored as last_frame.
D_Build ==
    /\ dpc = "loop"
    /\ relay_running
    /\ distCount < MaxDist
    /\ distCount' = distCount + 1
    /\ last_frame' = distCount + 1
    /\ dpc' = "stored"
    /\ UNCHANGED <<clients, queue, fanTodo, fanCur, dead_clients, vpc, hasRead,
                   passesSeen, fanGot, hadRoom, relayHist, outsideRelay>>

\* _distribute_frame, lines 207-213: take the lock, dead_clients = [], and
\* iterate over a copy of self.clients.
D_Begin ==
    /\ dpc = "stored"
    /\ dpc' = "fan"
    /\ fanTodo' = clients
    /\ fanCur' = 0
    /\ dead_clients' = {}
    /\ fanGot' = {}
    /\ hadRoom' = {v \in clients : Len(queue[v]) < CLIENT_QUEUE_SIZE}
    /\ passesSeen' = [v \in Viewers |->
                        IF v \in clients THEN passesSeen[v] + 1 ELSE passesSeen[v]]
    /\ passTimes' = IF passTimes = <<>> THEN <<now>> ELSE <<passTimes[Len(passTimes)], now>>
    /\ UNCHANGED <<clients, queue, last_frame, distCount, vpc, hasRead, lastEnq,
                   outsideRelay>>

\* lines 213-217: the next client of the copy; put_nowait() enqueues the
\* envelope, or raises queue.Full.
D_Put(v) ==
    /\ dpc = "fan"
    /\ v \in fanTodo
    /\ IF Len(queue[v]) < CLIENT_QUEUE_SIZE
         THEN /\ queue' = [queue EXCEPT ![v] = Append(@, last_frame)]
              /\ lastEnq' = [lastEnq EXCEPT ![v] = last_frame]
              /\ fanGot' = fanGot \cup {v}
              /\ fanTodo' = fanTodo \ {v}
              /\ UNCHANGED <<dpc, fanCur>>
         ELSE /\ dpc' = "full"
              /\ fanCur' = v
              /\ UNCHANGED <<queue, lastEnq, fanGot, fanTodo>>
    /\ UNCHANGED <<clients, last_frame, distCount, dead_clients, vpc, hasRead,
                   passesSeen, hadRoom, passTimes, outsideRelay>>

\* The mutant of D_DropOldest: the handler retries without get_nowait().
D_DropNothing ==
    /\ dpc = "full"
    /\ dpc' = "retry"
    /\ UNCHANGED <<queue, fanTodo, fanCur>>
    /\ UNCHANGED <<clients, last_frame, distCount, dead_clients, vpc, hasRead,
                   passesSeen, fanGot, hadRoom, relayHist, outsideRelay>>

\* lines 218-225: `except queue.Full:` then get_nowait() removes the oldest
\* envelope. On a queue its viewer has emptied meanwhile it raises queue.Empty,
\* which line 227 (`except queue.Full`) does not catch: the exception leaves the
\* `with` block (releasing the lock) and _distribute_frame, to be caught at
\* line 193 of _stream_worker.
D_DropOldest ==
    /\ dpc = "full"
    /\ IF queue[fanCur] # <<>>
         THEN /\ queue' = [queue EXCEPT ![fanCur] = Tail(@)]
              /\ dpc' = "retry"
              /\ UNCHANGED <<fanTodo, fanCur>>
         ELSE /\ dpc' = "raised"
              /\ fanTodo' = {}
              /\ fanCur' = 0
              /\ UNCHANGED queue
    /\ UNCHANGED <<clients, last_frame, distCount, dead_clients, vpc, hasRead,
                   passesSeen, fanGot, hadRoom, relayHist, outsideRelay>>

\* lines 226-230: the second put_nowait(); if it raises queue.Full the client
\* is appended to dead_clients.
D_Retry ==
    /\ dpc = "retry"
    /\ IF Len(queue[fanCur]) < CLIENT_QUEUE_SIZE
         THEN /\ queue' = [queue EXCEPT ![fanCur] = Append(@, last_frame)]
              /\ lastEnq' = [lastEnq EXCEPT ![fanCur] = last_frame]
              /\ fanGot' = fanGot \cup {fanCur}
              /\ UNCHANGED dead_clients
         ELSE /\ dead_clients' = dead_clients \cup {fanCur}
              /\ UNCHANGED <<queue, lastEnq, fanGot>>
    /\ fanTodo' = fanTodo \ {fanCur}
    /\ fanCur' = 0
    /\ dpc' = "fan"
    /\ UNCHANGED <<clients, last_frame, distCount, vpc, hasRead, passesSeen,
                   hadRoom, passTimes, outsideRelay>>

\* lines 232-235: the loop is over; dead clients are discarded and the lock is
\* released.
D_Finish ==
    /\ dpc = "fan"
    /\ fanTodo = {}
    /\ clients' = clients \ dead_clients
    /\ dead_clients' = {}
    /\ dpc' = "loop"
    /\ UNCHANGED <<queue, last_frame, distCount, fanTodo, fanCur, vpc, hasRead,
                   passesSeen, fanGot, hadRoom, relayHist, outsideRelay>>

\* The mutant of AfterRaise: the exception leaves _stream_worker and the
\* thread ends.
AfterRaiseUncaught(pc) == "exited"

\* Where the distribution thread is once an exception raised inside the try
\* block (lines 159-191) has been dealt with: back at `while self.running`.
AfterRaise(pc) == "loop"

\* _stream_worker, lines 193-196: `except Exception`: log, sleep one second,
\* next iteration.
D_Handler ==
    /\ dpc = "raised"
    /\ dpc' = AfterRaise(dpc)
    /\ UNCHANGED <<clients, queue, last_frame, distCount, fanTodo, fanCur,
                   dead_clients, vpc, hasRead, passesSeen, fanGot, hadRoom,
                   relayHist, outsideRelay>>

RelayNext ==
    \/ \E v \in Viewers : V_Join(v) \/ V_Get(v) \/ V_Leave(v) \/ D_Put(v)
    \/ D_Build \/ D_Begin \/ D_DropOldest \/ D_Retry \/ D_Finish \/ D_Handler

RelaySpec == RelayInit /\ [][RelayNext]_vars

\* ------------------------------------------------------- claims on RelaySpec
\* The distribution thread is between passes: the pass for the envelope in
\* last_frame has ended, normally or not.
PassOver == distCount > 0 /\ dpc \in {"loop", "raised"}

\* C4 (as claimed): when a distribution pass is over, every viewer that was
\* registered with room in its queue when the pass began has had the pass's
\* envelope enqueued.
C4_AllWithCapacityReceive == PassOver => hadRoom \subseteq fanGot

\* The CLIENT_QUEUE_SIZE most recent envelopes, oldest first.
LastEnvelopes ==
    [i \in 1..CLIENT_QUEUE_SIZE |-> distCount - CLIENT_QUEUE_SIZE + i]

\* C10 (as claimed): a viewer that has never read and has been registered
\* through CLIENT_QUEUE_SIZE + 2 or more distribution passes holds, when the
\* last pass is over, exactly the CLIENT_QUEUE_SIZE most recent envelopes in
\* order, or has been removed.
C10_NonReaderHoldsMostRecent ==
    \A v \in Viewers :
        (PassOver /\ ~hasRead[v] /\ passesSeen[v] >= CLIENT_QUEUE_SIZE + 2)
            => (v \notin clients \/ queue[v] = LastEnvelopes)

\* C17: add_client returns with its new queue in the set of clients; when an
\* envelope had been built before the call took the lock, the queue holds
\* that envelope, first and alone, and otherwise it is empty.
C17_JoinRegistersAndSeeds ==
    [][\A v \in Viewers :
          (vpc[v] = "absent" /\ vpc'[v] # "absent") =>
              /\ vpc'[v] = "reading"
              /\ v \notin clients /\ v \in clients'
              /\ last_frame # 0 => (Len(queue'[v]) = 1 /\ queue'[v][1] = last_frame)
              /\ last_frame = 0 => queue'[v] = <<>>]_vars

\* A viewer joined after the first envelope was built and has it as the head
\* of its queue, before any pass visited it and before it read anything.
C17_Witness ==
    \E v \in Viewers :
        /\ v \in clients
        /\ vpc[v] = "reading"
        /\ passesSeen[v] = 0
        /\ ~hasRead[v]
        /\ last_frame >= 2
        /\ queue[v] = <<last_frame>>

\* C27 (as claimed): no viewer's queue ever holds the same envelope twice,
\* the envelope put by add_client as seed included.
C27_EnqueuedAtMostOnce ==
    \A v \in Viewers : \A i, j \in 1..Len(queue[v]) :
        i < j => queue[v][i] # queue[v][j]

FRAME_INTERVAL == 2        \* src/cached_relay.py:20 is 1/15 s; in clock ticks

MaxFeedTime == 4           \* the clock of FeedSpec stops advancing here
MaxFeedFrames == 2         \* frames the ingestion thread records in FeedSpec
MaxFeedDist == 2           \* envelopes the distribution thread builds in FeedSpec
NumFeedViewers == 1        \* viewers that join in FeedSpec

FeedViewers == 1..NumFeedViewers

\* The process has been up for a while (time.time() is far from 0, to which
\* line 156 sets last_frame_time); both threads are about to begin.
FeedInit ==
    /\ now = FRAME_INTERVAL
    /\ frames = <<>>
    /\ sequence_counter = 0
    /\ frames_received = 0
    /\ frames_served = 0
    /\ cfPc = "idle"
    /\ cfTimestamp = 0
    /\ cfData = <<>>
    /\ lastRecorded = NoFrame
    /\ gfPc = "idle"
    /\ gfTime = 0
    /\ gfResult = NoFrame
    /\ gfFrames = <<>>
    /\ gfCalls = 0
    /\ gfSeen = 0
    /\ cache_duration = MaxDuration
    /\ serve_delay \in 0..1
    /\ ParseIdle
    /\ LifeIdle
    /\ RelayIdle
    /\ BackoffIdle
    /\ RegistryIdle
    /\ ShutdownIdle
    /\ LockIdle

\* _stream_worker, lines 159-166: read the clock; if the last distributed frame
\* is less than FRAME_INTERVAL old, sleep and start over (current_time is
\* read again before it is used).
F_Loop ==
    /\ dpc = "loop"
    /\ relay_running
    /\ distCount < MaxFeedDist
    /\ IF now - last_frame_time < FRAME_INTERVAL
       THEN UNCHANGED <<sw_current_time, dpc>>
       ELSE /\ sw_current_time' = now
            /\ dpc' = "get"
    /\ UNCHANGED <<cacheVars, parseVars, lifeVars, backoffVars, registryVars, lockVars, envelopeVars, shutdownVars, consumerVars,
                   last_frame_time, relay_running,
                   envSeq, clients, queue, last_frame, distCount, fanTodo, fanCur,
                   dead_clients, vpc, hasRead, passesSeen, fanGot, hadRoom,
                   relayHist>>

\* get_frame_to_serve, line 252, called from line 169: it reads the clock.
F_GetTime ==
    /\ dpc = "get"
    /\ gfTime' = now
    /\ dpc' = "scan"
    /\ UNCHANGED <<cfgVars, storeVars, cfVars, frames_served, gfPc, gfResult,
                   gfFrames, gfCalls, gfSeen, parseVars, lifeVars, backoffVars,
                   registryVars, lockVars, envelopeVars, shutdownVars, consumerVars,
                   feedVars, clients, queue, last_frame, distCount, fanTodo,
                   fanCur, dead_clients, vpc, hasRead, passesSeen, fanGot, hadRoom,
                   relayHist>>

\* get_frame_to_serve, lines 256-274, then _stream_worker lines 170-188: with
\* no frame, sleep and start over; with a frame, build its envelope, store it
\* as last_frame and set last_frame_time to the time read at line 160.
F_Scan ==
    /\ dpc = "scan"
    /\ LET frame_to_serve == FrameToServe(frames, gfTime, serve_delay) IN
        /\ IF frame_to_serve = NoFrame
           THEN /\ dpc' = "loop"
                /\ UNCHANGED <<frames_served, distCount, last_frame, envSeq,
                               last_frame_time>>
           ELSE /\ frames_served' = frames_served + 1
                /\ distCount' = distCount + 1
                /\ last_frame' = distCount + 1
                /\ envSeq' = Append(envSeq, frame_to_serve.sequence)
                /\ last_frame_time' = sw_current_time
                /\ dpc' = "stored"
    /\ gfTime' = 0              \* the locals go out of scope
    /\ sw_current_time' = 0
    /\ UNCHANGED <<cfgVars, storeVars, cfVars, gfPc, gfResult, gfFrames, gfCalls,
                   gfSeen, parseVars, lifeVars, backoffVars, registryVars, lockVars, envelopeVars, shutdownVars, consumerVars,
                   relay_running, clients, queue, fanTodo, fanCur, dead_clients, vpc, hasRead,
                   passesSeen, fanGot, hadRoom, relayHist>>

FeedNext ==
    \/ (Tick /\ now < MaxFeedTime)
    \/ (CF_Stamp /\ frames_received < MaxFeedFrames)
    \/ CF_Append
    \/ F_Loop \/ F_GetTime \/ F_Scan
    \/ D_Begin \/ D_DropOldest \/ D_Retry \/ D_Finish \/ D_Handler
    \/ \E v \in FeedViewers : D_Put(v) \/ V_Join(v) \/ V_Get(v)

FeedSpec == FeedInit /\ [][FeedNext]_vars

\* -------------------------------------------------------- claims on FeedSpec
\* C13: whenever an envelope is enqueued for a viewer (the join-time seed
\* included), the frame it wraps is not older in capture (sequence) order than
\* the frame of the envelope enqueued for that viewer before.
C13_ViewerSeesFramesInOrder ==
    [][\A v \in Viewers :
          (lastEnq[v] # 0 /\ lastEnq'[v] # lastEnq[v])
              => envSeq'[lastEnq[v]] <= envSeq'[lastEnq'[v]]]_vars

\* A viewer's queue holds its join-time seed and, behind it, the envelope of
\* a newer frame.
C13_Witness ==
    \E v \in Viewers :
        /\ Len(queue[v]) = 2
        /\ lastEnq[v] = queue[v][2]
        /\ passesSeen[v] = 1
        /\ envSeq[queue[v][1]] < envSeq[queue[v][2]]

\* C14 (as claimed): the fan-out passes of two successive envelopes begin at
\* least FRAME_INTERVAL apart.
C14_PassesAtLeastIntervalApart ==
    Len(passTimes) = 2 => passTimes[2] - passTimes[1] >= FRAME_INTERVAL

\* ====================================================================
\* StreamSpec: the distribution thread of RelaySpec as a task that can fail
\* and be stopped. Besides the queue.Empty of D_DropOldest, any statement of
\* the try block may raise (MemoryError, say); stop() clears the running flag
\* and the thread leaves its loop at the next test of line 159.
\* dpc = "exited": _stream_worker has returned.
\* ====================================================================

\* An exception raised by the cache read or while the envelope is built
\* (lines 160-184, nothing stored yet), or inside _distribute_frame, where it
\* leaves the `with self.lock` block and the function's locals.
D_Fault ==
    /\ dpc \in {"loop", "stored", "fan", "full", "retry"}
    /\ relay_running \/ dpc # "loop"
    /\ dpc' = "raised"
    /\ fanTodo' = {}
    /\ fanCur' = 0
    /\ dead_clients' = {}
    /\ UNCHANGED <<clients, queue, last_frame, distCount, vpc, hasRead, passesSeen,
                   fanGot, hadRoom, relayHist, outsideRelay>>

\* stop(), line 94: self.running = False.
R_Stop ==
    /\ relay_running
    /\ relay_running' = FALSE
    /\ UNCHANGED <<cacheVars, parseVars, lifeVars, relayVars, sw_current_time,
                   last_frame_time, envSeq, backoffVars, registryVars, lockVars, envelopeVars, shutdownVars, consumerVars>>

\* line 159: `while self.running` finds the flag cleared; the thread ends.
D_Exit ==
    /\ dpc = "loop"
    /\ ~relay_running
    /\ dpc' = "exited"
    /\ UNCHANGED <<clients, queue, last_frame, distCount, fanTodo, fanCur,
                   dead_clients, vpc, hasRead, passesSeen, fanGot, hadRoom,
                   relayHist, outsideRelay>>

StreamNext ==
    \/ \E v \in FeedViewers : V_Join(v) \/ V_Get(v) \/ D_Put(v)
    \/ D_Build \/ D_Begin \/ D_DropOldest \/ D_Retry \/ D_Finish \/ D_Handler
    \/ D_Fault \/ R_Stop \/ D_Exit

StreamSpec == RelayInit /\ [][StreamNext]_vars

\* ------------------------------------------------------ claims on StreamSpec
\* C18: an exception raised in an iteration takes the distribution thread
\* back to the top of its loop, changing nothing of the viewers; the thread
\* ends only from the top of the loop with the running flag cleared.
C18_ExceptionNeverEndsTask ==
    [][/\ (dpc = "raised" /\ dpc' # "raised") => dpc' = "loop"
       /\ (dpc # "raised" /\ dpc' = "raised") => (vpc' = vpc /\ clients' = clients)
       /\ (dpc # "exited" /\ dpc' = "exited") => (dpc = "loop" /\ ~relay_running)]_vars

\* A pass is under way for a viewer that was registered when the pass before
\* it began and did not get that pass's envelope: the earlier pass raised, and
\* the thread has built and is distributing the next envelope.
C18_Witness ==
    /\ dpc = "fan"
    /\ relay_running
    /\ \E v \in clients :
          /\ v \in fanTodo
          /\ passesSeen[v] >= 2
          /\ lastEnq[v] # 0
          /\ lastEnq[v] <= last_frame - 2

\* ====================================================================
\* ConsumerSpec: one request to stream_proxy (main_app.py lines 528-571) as
\* viewer Consumer of the relay of StreamSpec. Line 529 registers its queue
\* (V_Join) before the generator generate() exists; the generator's body
\* runs only when the WSGI server iterates the response.
\*
\* gpc:  "created"   Response(generate(), ...) returned (or no request yet,
\*                   while vpc[Consumer] = "absent"); the body has not begun
\*       "warmup"    at the test of the warm-up loop, lines 534-538
\*       "warmcheck" at `if relay.last_frame is None`, line 541
\*       "loop"      at `while relay.running`, line 546
\*       "get"       inside client_queue.get(timeout=QUEUE_TIMEOUT), line 548
\*       "yield"     suspended at `yield chunk`, line 552
\*       "removing"  in relay.remove_client(client_queue), line 542 or 561
\*       "done"      the generator has finished or was closed
\* ====================================================================

\* WARMUP_TIMEOUT (main_app.py:313, 15 s) counted in sleeps of 0.2 s (line
\* 539), and MAX_CONSECUTIVE_TIMEOUTS (lines 314-316, 10), both scaled down.
WARMUP_TIMEOUT == 2
MAX_CONSECUTIVE_TIMEOUTS == 2

Consumer == 1

\* What the steps of generate() that touch only its locals leave alone.
outsideConsumer == <<cacheVars, parseVars, lifeVars, relayVars, feedVars, backoffVars,
                     registryVars, lockVars, envelopeVars, shutdownVars, removeCalls>>

\* The server asks the response for its first chunk: the body of generate()
\* begins, waited = 0.0.
G_Start ==
    /\ gpc = "created"
    /\ vpc[Consumer] = "reading"
    /\ gpc' = "warmup"
    /\ waited' = 0
    /\ UNCHANGED <<consecutive_timeouts, outsideConsumer>>

\* The server closes the response without iterating it (a HEAD request, or
\* the client is gone before the body is sent): closing a generator that has
\* not begun runs none of its body.
G_CloseUnstarted ==
    /\ gpc = "created"
    /\ vpc[Consumer] = "reading"
    /\ gpc' = "done"
    /\ UNCHANGED <<waited, consecutive_timeouts, outsideConsumer>>

\* lines 534-540: the warm-up loop's test; either time.sleep(0.2) and
\* waited += 0.2, or the loop is left.
G_WarmUp ==
    /\ gpc = "warmup"
    /\ IF last_frame = 0 /\ waited < WARMUP_TIMEOUT /\ relay_running
       THEN /\ waited' = waited + 1
            /\ UNCHANGED gpc
       ELSE /\ gpc' = "warmcheck"
            /\ UNCHANGED waited
    /\ UNCHANGED <<consecutive_timeouts, outsideConsumer>>

\* lines 541-544: without a first envelope the queue is removed and the
\* generator returns; with one, consecutive_timeouts = 0 and the loop begins.
G_WarmCheck ==
    /\ gpc = "warmcheck"
    /\ IF last_frame = 0
       THEN /\ gpc' = "removing"
            /\ UNCHANGED consecutive_timeouts
       ELSE /\ gpc' = "loop"
            /\ consecutive_timeouts' = 0
    /\ UNCHANGED <<waited, outsideConsumer>>

\* line 546: `while relay.running`; when it fails the finally clause runs.
G_Loop ==
    /\ gpc = "loop"
    /\ gpc' = IF relay_running THEN "get" ELSE "removing"
    /\ UNCHANGED <<waited, consecutive_timeouts, outsideConsumer>>

\* lines 548-552: get() returns the oldest queued envelope (the relay never
\* queues None), the counter is reset and the chunk is yielded.
G_Get ==
    /\ gpc = "get"
    /\ queue[Consumer] # <<>>
    /\ queue' = [queue EXCEPT ![Consumer] = Tail(@)]
    /\ hasRead' = [hasRead EXCEPT ![Consumer] = TRUE]
    /\ consecutive_timeouts' = 0
    /\ gpc' = "yield"
    /\ UNCHANGED <<clients, last_frame, distCount, dpc, fanTodo, fanCur,
                   dead_clients, vpc, passesSeen, fanGot, hadRoom, relayHist,
                   cacheVars, parseVars, lifeVars, feedVars, backoffVars,
                   registryVars, lockVars, envelopeVars, shutdownVars, waited, removeCalls>>

\* lines 553-559: get() raised queue.Empty after QUEUE_TIMEOUT seconds with
\* nothing queued: count it, and leave the loop at the threshold or when the
\* relay is no longer running.
G_Timeout ==
    /\ gpc = "get"
    /\ queue[Consumer] = <<>>
    /\ consecutive_timeouts' = consecutive_timeouts + 1
    /\ gpc' = IF consecutive_timeouts + 1 >= MAX_CONSECUTIVE_TIMEOUTS \/ ~relay_running
              THEN "removing" ELSE "loop"
    /\ UNCHANGED <<waited, outsideConsumer>>

\* The server asks for the next chunk: execution resumes after line 552.
G_Resume ==
    /\ gpc = "yield"
    /\ gpc' = "loop"
    /\ UNCHANGED <<waited, consecutive_timeouts, outsideConsumer>>

\* The server closes the response (the client disconnected): GeneratorExit is
\* raised at line 552, passes `except Exception` and runs the finally clause.
G_Close ==
    /\ gpc = "yield"
    /\ gpc' = "removing"
    /\ UNCHANGED <<waited, consecutive_timeouts, outsideConsumer>>

\* lines 542 / 561: relay.remove_client(client_queue) (cached_relay.py
\* 139-146), which waits for self.lock; then the generator is finished.
G_Remove ==
    /\ gpc = "removing"
    /\ ~InPass
    /\ clients' = Discard(clients, Consumer)
    /\ vpc' = [vpc EXCEPT ![Consumer] = "gone"]
    /\ queue' = [queue EXCEPT ![Consumer] = <<>>]
    /\ removeCalls' = removeCalls + 1
    /\ gpc' = "done"
    /\ UNCHANGED <<last_frame, distCount, dpc, fanTodo, fanCur, dead_clients,
                   hasRead, passesSeen, fanGot, hadRoom, relayHist,
                   cacheVars, parseVars, lifeVars, feedVars, backoffVars,
                   registryVars, lockVars, envelopeVars, shutdownVars, waited, consecutive_timeouts>>

ConsumerNext ==
    \/ V_Join(Consumer) \/ D_Put(Consumer)
    \/ D_Build \/ D_Begin \/ D_DropOldest \/ D_Retry \/ D_Finish \/ D_Handler
    \/ R_Stop \/ D_Exit
    \/ G_Start \/ G_CloseUnstarted \/ G_WarmUp \/ G_WarmCheck \/ G_Loop \/ G_Get
    \/ G_Timeout \/ G_Resume \/ G_Close \/ G_Remove

ConsumerSpec == RelayInit /\ [][ConsumerNext]_vars

\* ---------------------------------------------------- claims on ConsumerSpec
\* C19 (as claimed): a request that has ended has called remove_client for
\* its queue, which is no longer registered; the warm-up loop sleeps for no
\* more than WARMUP_TIMEOUT; and the consecutive-timeout counter never passes
\* the threshold, at which the consumer is out of its loop.
C19_ConsumerEndsUnregistered ==
    /\ gpc = "done" => (removeCalls >= 1 /\ Consumer \notin clients)
    /\ waited <= WARMUP_TIMEOUT
    /\ consecutive_timeouts <= MAX_CONSECUTIVE_TIMEOUTS
    /\ consecutive_timeouts = MAX_CONSECUTIVE_TIMEOUTS => gpc \in {"removing", "done"}

\* ====================================================================
\* RemoveSpec: callers of add_client and remove_client, the latter called any
\* number of times with a queue add_client once returned, whether it is still
\* registered or not, while the distribution thread runs its passes over
\* queues nobody reads. removeCalls counts the calls of all callers.
\* ====================================================================

\* remove_client(client_queue), lines 139-146, for the queue of viewer v.
X_Remove(v) ==
    /\ vpc[v] \in {"reading", "gone"}
    /\ ~InPass
    /\ removeCalls < MaxRemoves
    /\ clients' = Discard(clients, v)
    /\ vpc' = [vpc EXCEPT ![v] = "gone"]
    /\ queue' = [queue EXCEPT ![v] = <<>>]
    /\ removeCalls' = removeCalls + 1
    /\ UNCHANGED <<last_frame, distCount, dpc, fanTodo, fanCur, dead_clients,
                   hasRead, passesSeen, fanGot, hadRoom, relayHist,
                   cacheVars, parseVars, lifeVars, feedVars, backoffVars,
                   registryVars, lockVars, envelopeVars, shutdownVars, gpc, waited, consecutive_timeouts>>

RemoveNext ==
    \/ \E v \in Viewers : V_Join(v) \/ X_Remove(v) \/ D_Put(v)
    \/ (D_Build /\ distCount < MaxRemoveDist)
    \/ D_Begin \/ D_DropOldest \/ D_Retry \/ D_Finish

RemoveSpec == RelayInit /\ [][RemoveNext]_vars

\* ------------------------------------------------------ claims on RemoveSpec
\* C20: a call of remove_client leaves its queue out of the set of clients
\* and every other queue as it was, registered or not; in particular a call
\* for a queue that is not registered changes nothing.
C20_RemoveIsIdempotent ==
    [][removeCalls' # removeCalls =>
          /\ clients' \subseteq clients
          /\ \A v \in Viewers :
                /\ vpc'[v] = "gone" => v \notin clients'
                /\ vpc'[v] = vpc[v] => (v \in clients' <=> v \in clients)]_vars

\* One queue has been removed twice (the other viewer, still registered,
\* has never been removed, and no third queue was ever handed out).
C20_Witness ==
    /\ removeCalls = 2
    /\ \E v, w \in Viewers :
          /\ vpc[v] = "gone"
          /\ vpc[w] = "reading" /\ w \in clients
          /\ \A x \in Viewers \ {v, w} : vpc[x] = "absent"

\* ====================================================================
\* ShutdownSpec: one thread (the registry's, under _media_lock) calling
\* start() and stop() of a CachedMediaRelay one after the other, in any
\* order, with the relay's FrameCache, its ingestion threads (the W_ steps
\* of LifeSpec) and its distribution thread (no viewers). The relay begins
\* as __init__ leaves it: never started.
\*
\* rpc:  "idle"         not inside a call
\*       "cache_stop"   stop(): line 94 done, about to call frame_cache.stop()
\*       "cache_join"   FrameCache.stop(): inside fetch_thread.join(timeout=5)
\*       "stream_test"  stop(): at `if self.stream_thread:`, line 101
\*       "raised"       the call ended with an exception
\* dpc = "unborn": no distribution thread was created yet.
\* ====================================================================

\* The mutant of HasThread: join() is called whatever the attribute holds.
HasThreadAlways(thread) == TRUE

\* `if self.fetch_thread:` (frame_cache.py:105) and `if self.stream_thread:`
\* (cached_relay.py:101): None until the first start().
HasThread(thread) == thread # 0

ShutdownInit ==
    /\ CacheIdle
    /\ cache_duration = MaxDuration
    /\ serve_delay = 0
    /\ running = FALSE
    /\ wire = <<>>
    /\ sent = <<>>
    /\ buffer = <<>>
    /\ parsePc = "reading"
    /\ lastYield = 0
    /\ kept = 0
    /\ LifeIdle
    /\ RelayNew
    /\ dpc = "unborn"
    /\ relay_running = FALSE
    /\ BackoffIdle
    /\ RegistryIdle
    /\ ShutdownIdle
    /\ LockIdle

\* CachedMediaRelay.start(), lines 72-89, with FrameCache.start()
\* (frame_cache.py:82-97) called from line 81: nothing when already running;
\* else both flags are set and both threads created and started. (The model
\* creates at most MaxWorkers ingestion threads and keeps one distribution
\* thread at a time: a start() that would need more is not begun.)
RL_Start ==
    /\ rpc = "idle"
    /\ IF relay_running
       THEN UNCHANGED <<relay_running, running, fetch_thread, wpc, dpc,
                        stream_thread, stopReturned>>
       ELSE /\ dpc \in {"unborn", "exited"}
            /\ running \/ Unborn # {}
            /\ relay_running' = TRUE
            /\ IF running
               THEN UNCHANGED <<running, fetch_thread, wpc, stopReturned>>
               ELSE LET w == CHOOSE x \in Unborn : \A y \in Unborn : x <= y IN
                    /\ running' = TRUE
                    /\ stopReturned' = FALSE
                    /\ fetch_thread' = w
                    /\ wpc' = [wpc EXCEPT ![w] = "while"]
            /\ stream_thread' = stream_thread + 1
            /\ dpc' = "loop"
    /\ UNCHANGED <<cfgVars, storeVars, cfVars, gfVars, wire, sent, buffer, parsePc,
                   lastYield, kept, upstream_errors, wLeft, cpc, cjoin,
                   clients, queue, last_frame, distCount, fanTodo, fanCur,
                   dead_clients, vpc, hasRead, passesSeen, fanGot, hadRoom,
                   relayHist, sw_current_time, last_frame_time, envSeq,
                   backoffVars, registryVars, lockVars, envelopeVars, consumerVars, rpc>>

\* What a step of stop() leaves alone besides the flags and rpc.
outsideStop == <<cfgVars, storeVars, cfVars, gfVars, wire, sent, buffer, parsePc,
                 lastYield, kept, fetch_thread, upstream_errors, wpc, wLeft, cpc,
                 cjoin, relayVars, sw_current_time, last_frame_time, envSeq,
                 backoffVars, registryVars, lockVars, envelopeVars, consumerVars, stream_thread>>

\* CachedMediaRelay.stop(), line 94: self.running = False.
RL_Stop ==
    /\ rpc = "idle"
    /\ relay_running' = FALSE
    /\ rpc' = "cache_stop"
    /\ UNCHANGED <<running, stopReturned, outsideStop>>

\* line 97: self.frame_cache.stop(), frame_cache.py:102-105: the cache's flag
\* is cleared; without a thread FrameCache.stop() returns at once.
RL_CacheStop ==
    /\ rpc = "cache_stop"
    /\ running' = FALSE
    /\ IF HasThread(fetch_thread)
       THEN /\ rpc' = IF fetch_thread = 0 THEN "raised" ELSE "cache_join"
            /\ UNCHANGED stopReturned
       ELSE /\ rpc' = "stream_test"
            /\ stopReturned' = TRUE
    /\ UNCHANGED <<relay_running, outsideStop>>

\* frame_cache.py:106-108: join(timeout=5) returns, the thread dead or not, and
\* FrameCache.stop() returns.
RL_CacheJoin ==
    /\ rpc = "cache_join"
    /\ rpc' = "stream_test"
    /\ stopReturned' = ~running
    /\ UNCHANGED <<relay_running, running, outsideStop>>

\* lines 101-104: the distribution thread, if there is one, is joined for at
\* most CLIENT_REMOVAL_TIMEOUT seconds, and stop() returns.
RL_StreamJoin ==
    /\ rpc = "stream_test"
    /\ rpc' = IF HasThread(stream_thread) /\ stream_thread = 0 THEN "raised" ELSE "idle"
    /\ UNCHANGED <<relay_running, running, stopReturned, outsideStop>>

ShutdownNext ==
    \/ RL_Start \/ RL_Stop \/ RL_CacheStop \/ RL_CacheJoin \/ RL_StreamJoin
    \/ \E w \in Workers :
          \/ W_While(w) \/ W_Connected(w) \/ W_ConnectFailed(w)
          \/ W_ChunkArrives(w) \/ W_StreamEnds(w) \/ W_ReadFailed(w)
          \/ W_Chunk(w) \/ W_Extract(w) \/ W_Except(w) \/ W_Slept(w)
    \/ (D_Build /\ distCount < MaxFeedDist) \/ D_Begin \/ D_Finish \/ D_Exit

ShutdownSpec == ShutdownInit /\ [][ShutdownNext]_vars

\* ---------------------------------------------------- claims on ShutdownSpec
\* No thread comes into being in this step.
NothingLaunched ==
    /\ fetch_thread' = fetch_thread
    /\ stream_thread' = stream_thread
    /\ \A w \in Workers : wpc[w] = "unborn" => wpc'[w] = "unborn"
    /\ dpc \in {"unborn", "exited"} => dpc' = dpc

\* C21: no step of stop() raises or brings a thread into being; a step taken
\* with both running flags clear (the relay never started, or stopped
\* before) leaves them clear; and when stop() returns both flags are clear.
C21_StopWhenStoppedIsNoOp ==
    [][rpc' # rpc /\ (rpc # "idle" \/ rpc' = "cache_stop") =>
          /\ rpc' # "raised"
          /\ NothingLaunched
          /\ (~relay_running /\ ~running) => (~relay_running' /\ ~running')
          /\ rpc' = "idle" => (~relay_running' /\ ~running')]_vars

\* stop() was called on a relay that was never started and has passed both
\* thread tests.
C21_WitnessNeverStarted ==
    /\ rpc = "stream_test"
    /\ stream_thread = 0
    /\ fetch_thread = 0
    /\ stopReturned

\* ------------------------------------------------ ShutdownLiveSpec: fairness
\* Every step of ingestion thread w: a network read, a sleep or a plain
\* statement of _fetch_worker / _parse_mjpeg_stream.
WorkerStep(w) ==
    \/ W_While(w) \/ W_Connected(w) \/ W_ConnectFailed(w)
    \/ W_ChunkArrives(w) \/ W_StreamEnds(w) \/ W_ReadFailed(w)
    \/ W_Chunk(w) \/ W_Extract(w) \/ W_Except(w) \/ W_Slept(w)

\* Every step of the distribution thread (_stream_worker).
DistributionStep ==
    \/ (D_Build /\ distCount < MaxFeedDist) \/ D_Begin \/ D_Finish \/ D_Exit

\* Every network read and every sleep returns and a runnable thread is
\* scheduled: each thread that can take a step eventually takes one. The
\* callers of start() and stop() are under no obligation.
ShutdownLiveSpec ==
    /\ ShutdownSpec
    /\ \A w \in Workers : WF_vars(WorkerStep(w))
    /\ WF_vars(DistributionStep)

\* C23: whenever the cache's flag is clear, every ingestion thread ends unless
\* start() sets the flag again; whenever the relay's flag is clear, the
\* distribution thread ends unless start() sets the flag again; and a thread
\* that has ended stays ended (only start() puts a new distribution thread
\* in its place).
C23_StopEndsBothTasks ==
    /\ (~running) ~> (running \/ Alive = {})
    /\ (~relay_running) ~> (relay_running \/ dpc \in {"unborn", "exited"})
    /\ [][/\ \A w \in Workers : wpc[w] = "dead" => wpc'[w] = "dead"
          /\ (dpc = "exited" /\ dpc' # "exited") => (~relay_running /\ relay_running')]_vars

\* stop() has returned after a start() and both threads have ended, the
\* ingestion thread having met an upstream error on the way.
C23_Witness ==
    /\ rpc = "idle"
    /\ ~running
    /\ ~relay_running
    /\ fetch_thread # 0
    /\ wpc[fetch_thread] = "dead"
    /\ upstream_errors > 0
    /\ dpc = "exited"

\* ====================================================================
\* EnvelopeSpec: the distribution thread taking a frame from the cache and
\* wrapping it (cached_relay.py:169-191), byte for byte. The cache holds one
\* frame, whose payload is any JPEG-shaped byte string of up to 4 + MaxPad
\* bytes; text is written as its ASCII codes.
\* dpc: "loop" | "got" (line 169 returned a frame) | "built" (lines 179-184)
\*      | "stored" (line 187) and the pass of RelaySpec.
\* ====================================================================
MaxPad == 7         \* bytes between the markers of a payload

\* b"--frame\r\n" b"Content-Type: image/jpeg\r\n" b"Content-Length: ": adjacent
\* literals, one bytes object (lines 180-182).
HEADER ==
    <<45, 45, 102, 114, 97, 109, 101, 13, 10>>
    \o <<67, 111, 110, 116, 101, 110, 116, 45, 84, 121, 112, 101, 58, 32, 105, 109, 97, 103, 101, 47, 106, 112, 101, 103, 13, 10>>
    \o <<67, 111, 110, 116, 101, 110, 116, 45, 76, 101, 110, 103, 116, 104, 58, 32>>

\* b"\r\n"
CRLF == <<13, 10>>

RECURSIVE Pads(_)
Pads(n) ==
    IF n = 0 THEN {<<>>}
    ELSE Pads(n - 1) \cup {Append(p, b) : p \in {q \in Pads(n - 1) : Len(q) = n - 1},
                                           b \in {XX, D8}}

Payloads == {SOI \o p \o EOI : p \in Pads(MaxPad)}

\* The mutant of Decimal: the digits come out lowest first.
RECURSIVE DecimalReversed(_)
DecimalReversed(n) ==
    IF n < 10 THEN <<48 + n>> ELSE <<48 + (n % 10)>> \o DecimalReversed(n \div 10)

\* str(n).encode("ascii") for n >= 0: the decimal digits, highest first.
RECURSIVE Decimal(_)
Decimal(n) ==
    IF n < 10 THEN <<48 + n>> ELSE Append(Decimal(n \div 10), 48 + (n % 10))

\* lines 179-184: the multipart part wrapped around one frame.
Envelope(data) == HEADER \o Decimal(Len(data)) \o CRLF \o CRLF \o data \o CRLF

EnvelopeInit ==
    /\ now = 0
    /\ \E d \in Payloads : frames = <<CachedFrame(d, 0, 0)>>
    /\ sequence_counter = 1
    /\ frames_received = 1
    /\ frames_served = 0
    /\ cfPc = "idle"
    /\ cfTimestamp = 0
    /\ cfData = <<>>
    /\ lastRecorded = frames[1]
    /\ gfPc = "idle"
    /\ gfTime = 0
    /\ gfResult = NoFrame
    /\ gfFrames = <<>>
    /\ gfCalls = 0
    /\ gfSeen = 0
    /\ cache_duration = MaxDuration
    /\ serve_delay = 0
    /\ ParseIdle
    /\ LifeIdle
    /\ RelayIdle
    /\ BackoffIdle
    /\ RegistryIdle
    /\ ShutdownIdle
    /\ LockIdle

\* What the steps that only build the envelope leave alone.
outsideEnvelope == <<cfgVars, storeVars, cfVars, gfPc, gfTime, gfResult, gfFrames,
                     gfCalls, gfSeen, parseVars, lifeVars, clients, queue, fanTodo,
                     fanCur, dead_clients, vpc, hasRead, passesSeen, fanGot, hadRoom,
                     relayHist, feedVars, backoffVars, registryVars, lockVars, consumerVars,
                     shutdownVars>>

\* lines 169-174: get_frame_to_serve() (frame_cache.py:244-274) returns the
\* data of the frame to serve; with None the thread sleeps and starts over.
E_Get ==
    /\ dpc = "loop"
    /\ relay_running
    /\ distCount < MaxFeedDist
    /\ LET frame_to_serve == FrameToServe(frames, now, serve_delay) IN
        IF frame_to_serve = NoFrame \/ frame_to_serve.data = <<>>
        THEN UNCHANGED <<frames_served, frame_data, dpc>>
        ELSE /\ frames_served' = frames_served + 1
             /\ frame_data' = frame_to_serve.data
             /\ dpc' = "got"
    /\ UNCHANGED <<multipart_frame, last_frame_bytes, last_frame, distCount,
                   outsideEnvelope>>

\* lines 179-184: multipart_frame = (...)
E_Build ==
    /\ dpc = "got"
    /\ multipart_frame' = Envelope(frame_data)
    /\ dpc' = "built"
    /\ UNCHANGED <<frames_served, frame_data, last_frame_bytes, last_frame,
                   distCount, outsideEnvelope>>

\* lines 187-188: self.last_frame = multipart_frame
E_Store ==
    /\ dpc = "built"
    /\ last_frame_bytes' = multipart_frame
    /\ distCount' = distCount + 1
    /\ last_frame' = distCount + 1
    /\ dpc' = "stored"
    /\ UNCHANGED <<frames_served, frame_data, multipart_frame, outsideEnvelope>>

EnvelopeNext == E_Get \/ E_Build \/ E_Store \/ D_Begin \/ D_Finish

EnvelopeSpec == EnvelopeInit /\ [][EnvelopeNext]_vars

\* ---------------------------------------------------- claims on EnvelopeSpec
\* The number a string of decimal digits denotes.
RECURSIVE ParseDecimal(_)
ParseDecimal(ds) ==
    IF ds = <<>> THEN 0
    ELSE 10 * ParseDecimal(SubSeq(ds, 1, Len(ds) - 1)) + (ds[Len(ds)] - 48)

\* e is the header text, then k decimal digits without a leading zero that
\* denote Len(data), then CR LF CR LF, the bytes of data, and CR LF.
IsEnvelopeOf(e, data) ==
    \E k \in 1..3 :
        LET h == Len(HEADER)
            n == Len(data) IN
        /\ Len(e) = h + k + 4 + n + 2
        /\ SubSeq(e, 1, h) = HEADER
        /\ \A i \in (h + 1)..(h + k) : e[i] \in 48..57
        /\ k > 1 => e[h + 1] # 48
        /\ ParseDecimal(SubSeq(e, h + 1, h + k)) = n
        /\ SubSeq(e, h + k + 1, h + k + 4) = <<13, 10, 13, 10>>
        /\ SubSeq(e, h + k + 5, h + k + 4 + n) = data
        /\ SubSeq(e, h + k + 5 + n, h + k + 6 + n) = <<13, 10>>

\* C22: the envelope built for a frame is the multipart part of that frame,
\* with its length in decimal, and it is what last_frame holds from line 187
\* on, the fan-out pass included.
C22_EnvelopeFormat ==
    /\ dpc \in {"built", "stored", "fan"} =>
          /\ frame_data = frames[1].data
          /\ IsEnvelopeOf(multipart_frame, frame_data)
    /\ dpc \in {"stored", "fan"} => last_frame_bytes = multipart_frame

\* The envelope of a frame of ten bytes or more (a two-digit length) is
\* stored as last_frame.
C22_Witness ==
    /\ dpc = "stored"
    /\ Len(frame_data) >= 10
    /\ last_frame_bytes = multipart_frame
    /\ Len(multipart_frame) = Len(HEADER) + 2 + 4 + Len(frame_data) + 2

\* ====================================================================
\* LockSpec: the three locks of the program and every thread that takes one,
\* for one upstream URL. A request thread looks the relay up (creating and
\* starting it the first time), joins, and leaves; the distribution thread
\* reads the cache and fans out; the ingestion thread records frames; a
\* query thread calls CachedMediaRelay.get_status() or waitress_info(); and
\* cleanup_relays stops the relay. Each `with` statement is an acquiring
\* step, which waits while another thread holds the lock, and the block that
\* ends by releasing it. (The relay's and the cache's locks are RLocks; no
\* thread takes one it already holds.)
\* tpc, request thread:  "idle" "gm_locked" "add" "add_locked" "add_log"
\*                       "streaming" "rm_locked" "rm_log"
\*      distribution:    "unborn" "loop" "gf_locked" "got" "stored" "df_locked"
\*                       "fan" "exited"
\*      ingestion:       "unborn" "while" "cf_locked" "dead"
\*      query:           "idle" "gs_cache" "gs_mid" "gs_relay" "wi_media"
\*                       "wi_relay" "wi_done"
\*      cleanup:         "idle" "cr_media" "cr_join" "cr_clear"
\* ====================================================================

MaxLockDist == 1      \* envelopes the distribution thread builds in LockSpec
MaxLockFrames == 1    \* frames the ingestion thread records in LockSpec

\* The URL every request of LockSpec asks for.
LockUrl == CHOOSE u \in Urls : \A x \in Urls : u <= x

\* What the actions of LockSpec leave alone.
lockRest == <<cfgVars, cfVars, gfPc, gfTime, gfResult, gfFrames, gfCalls, gfSeen,
              wire, sent, buffer, parsePc, lastYield, kept, lifeVars, dpc, fanCur,
              vpc, hasRead, passesSeen, fanGot, hadRoom, relayHist,
              sw_current_time, last_frame_time, envSeq, backoffVars, media_lock,
              lpc, lurl, lrelay, relayUrl, starts, stops, got, envelopeVars,
              shutdownVars, consumerVars>>

LockInit ==
    /\ CacheIdle
    /\ cache_duration = MaxDuration
    /\ serve_delay = 0
    /\ running = FALSE
    /\ wire = <<>>
    /\ sent = <<>>
    /\ buffer = <<>>
    /\ parsePc = "reading"
    /\ lastYield = 0
    /\ kept = 0
    /\ LifeIdle
    /\ RelayNew
    /\ dpc = "unborn"
    /\ relay_running = FALSE
    /\ BackoffIdle
    /\ RegistryIdle
    /\ ShutdownIdle
    /\ LockIdle

\* stream_proxy, main_app.py:528: get_media_relay(), line 325: `with _media_lock:`.
\* (cleanup_relays runs at interpreter exit, line 742: requests that begin
\* after it are not followed.)
GM_Acquire(v) ==
    /\ tpc[TViewer(v)] = "idle"
    /\ cleanups = 0
    /\ lock["media"] = Free
    /\ lock' = [lock EXCEPT !["media"] = TViewer(v)]
    /\ tpc' = [tpc EXCEPT ![TViewer(v)] = "gm_locked"]
    /\ access' = NoAccess
    /\ UNCHANGED <<media_relays, cleanups, running, relay_running, frames,
                   sequence_counter, frames_received, lastRecorded, frames_served,
                   clients, queue, last_frame, distCount, fanTodo, dead_clients,
                   lockRest>>

\* get_media_relay, lines 326-336: the relay of the URL is looked up; a missing
\* one is constructed, started (cached_relay.py:72-89, frame_cache.py:82-97:
\* both flags set, both threads started) and stored; the lock is released.
GM_GetOrCreate(v) ==
    /\ tpc[TViewer(v)] = "gm_locked"
    /\ IF media_relays[LockUrl] = 0
       THEN /\ media_relays' = [media_relays EXCEPT ![LockUrl] = 1]
            /\ relay_running' = TRUE
            /\ running' = TRUE
            /\ tpc' = [tpc EXCEPT ![TViewer(v)] = "add", ![TDist] = "loop",
                                  ![TIngest] = "while"]
       ELSE /\ tpc' = [tpc EXCEPT ![TViewer(v)] = "add"]
            /\ UNCHANGED <<media_relays, relay_running, running>>
    /\ lock' = [lock EXCEPT !["media"] = Free]
    /\ access' = NoAccess
    /\ UNCHANGED <<cleanups, frames, sequence_counter, frames_received, lastRecorded,
                   frames_served, clients, queue, last_frame, distCount, fanTodo,
                   dead_clients, lockRest>>

\* stream_proxy, main_app.py:529: relay.add_client(), line 120: `with self.lock:`.
AC_Acquire(v) ==
    /\ tpc[TViewer(v)] = "add"
    /\ lock["relay"] = Free
    /\ lock' = [lock EXCEPT !["relay"] = TViewer(v)]
    /\ tpc' = [tpc EXCEPT ![TViewer(v)] = "add_locked"]
    /\ access' = NoAccess
    /\ UNCHANGED <<media_relays, cleanups, running, relay_running, frames,
                   sequence_counter, frames_received, lastRecorded, frames_served,
                   clients, queue, last_frame, distCount, fanTodo, dead_clients,
                   lockRest>>

\* add_client, lines 122-133: the new queue joins self.clients and is seeded
\* with last_frame; the lock is released.
AC_Add(v) ==
    /\ tpc[TViewer(v)] = "add_locked"
    /\ clients' = clients \cup {v}
    /\ queue' = [queue EXCEPT ![v] = Seed(last_frame)]
    /\ access' = <<"viewer", "mutate", lock["relay"] = TViewer(v)>>
    /\ lock' = [lock EXCEPT !["relay"] = Free]
    /\ tpc' = [tpc EXCEPT ![TViewer(v)] = "add_log"]
    /\ UNCHANGED <<media_relays, cleanups, running, relay_running, frames,
                   sequence_counter, frames_received, lastRecorded, frames_served,
                   last_frame, distCount, fanTodo, dead_clients, lockRest>>

\* add_client, line 136: logging.info(... len(self.clients) ...), after the
\* `with` block.
AC_Log(v) ==
    /\ tpc[TViewer(v)] = "add_log"
    /\ access' = <<"viewer", "read", lock["relay"] = TViewer(v)>>
    /\ tpc' = [tpc EXCEPT ![TViewer(v)] = "streaming"]
    /\ UNCHANGED <<lock, media_relays, cleanups, running, relay_running, frames,
                   sequence_counter, frames_received, lastRecorded, frames_served,
                   clients, queue, last_frame, distCount, fanTodo, dead_clients,
                   lockRest>>

\* The mutant of RC_Acquire: remove_client without `with self.lock:`.
RC_AcquireNoLock(v) ==
    /\ tpc[TViewer(v)] = "streaming"
    /\ tpc' = [tpc EXCEPT ![TViewer(v)] = "rm_locked"]
    /\ access' = NoAccess
    /\ UNCHANGED <<lock, media_relays, cleanups, running, relay_running, frames,
                   sequence_counter, frames_received, lastRecorded, frames_served,
                   clients, queue, last_frame, distCount, fanTodo, dead_clients,
                   lockRest>>

\* generate(), main_app.py:542/561: relay.remove_client(), line 141: `with self.lock:`.
RC_Acquire(v) ==
    /\ tpc[TViewer(v)] = "streaming"
    /\ lock["relay"] = Free
    /\ lock' = [lock EXCEPT !["relay"] = TViewer(v)]
    /\ tpc' = [tpc EXCEPT ![TViewer(v)] = "rm_locked"]
    /\ access' = NoAccess
    /\ UNCHANGED <<media_relays, cleanups, running, relay_running, frames,
                   sequence_counter, frames_received, lastRecorded, frames_served,
                   clients, queue, last_frame, distCount, fanTodo, dead_clients,
                   lockRest>>

\* remove_client, line 144: self.clients.discard(client_queue); the lock is
\* released.
RC_Discard(v) ==
    /\ tpc[TViewer(v)] = "rm_locked"
    /\ clients' = Discard(clients, v)
    /\ queue' = [queue EXCEPT ![v] = <<>>]
    /\ access' = <<"viewer", "mutate", lock["relay"] = TViewer(v)>>
    /\ lock' = [lock EXCEPT !["relay"] = Free]
    /\ tpc' = [tpc EXCEPT ![TViewer(v)] = "rm_log"]
    /\ UNCHANGED <<media_relays, cleanups, running, relay_running, frames,
                   sequence_counter, frames_received, lastRecorded, frames_served,
                   last_frame, distCount, fanTodo, dead_clients, lockRest>>

\* remove_client, line 146: logging.info(... len(self.clients) ...), after the
\* `with` block; the request is over.
RC_Log(v) ==
    /\ tpc[TViewer(v)] = "rm_log"
    /\ access' = <<"viewer", "read", lock["relay"] = TViewer(v)>>
    /\ tpc' = [tpc EXCEPT ![TViewer(v)] = "idle"]
    /\ UNCHANGED <<lock, media_relays, cleanups, running, relay_running, frames,
                   sequence_counter, frames_received, lastRecorded, frames_served,
                   clients, queue, last_frame, distCount, fanTodo, dead_clients,
                   lockRest>>

\* _stream_worker, line 159: `while self.running` finds the flag cleared.
SW_Exit ==
    /\ tpc[TDist] = "loop"
    /\ ~relay_running
    /\ tpc' = [tpc EXCEPT ![TDist] = "exited"]
    /\ access' = NoAccess
    /\ UNCHANGED <<lock, media_relays, cleanups, running, relay_running, frames,
                   sequence_counter, frames_received, lastRecorded, frames_served,
                   clients, queue, last_frame, distCount, fanTodo, dead_clients,
                   lockRest>>

\* _stream_worker, line 170: get_frame_to_serve(), frame_cache.py:259:
\* `with self.lock:`.
SW_CacheAcquire ==
    /\ tpc[TDist] = "loop"
    /\ relay_running
    /\ distCount < MaxLockDist
    /\ lock["cache"] = Free
    /\ lock' = [lock EXCEPT !["cache"] = TDist]
    /\ tpc' = [tpc EXCEPT ![TDist] = "gf_locked"]
    /\ access' = NoAccess
    /\ UNCHANGED <<media_relays, cleanups, running, relay_running, frames,
                   sequence_counter, frames_received, lastRecorded, frames_served,
                   clients, queue, last_frame, distCount, fanTodo, dead_clients,
                   lockRest>>

\* get_frame_to_serve, lines 260-274: the scan; the lock is released; without a
\* frame the thread sleeps and loops (cached_relay.py:171-174).
SW_Scan ==
    /\ tpc[TDist] = "gf_locked"
    /\ LET frame_to_serve == FrameToServe(frames, now, serve_delay) IN
        /\ frames_served' = IF frame_to_serve # NoFrame
                            THEN frames_served + 1 ELSE frames_served
        /\ tpc' = [tpc EXCEPT ![TDist] = IF frame_to_serve # NoFrame
                                         THEN "got" ELSE "loop"]
    /\ lock' = [lock EXCEPT !["cache"] = Free]
    /\ access' = NoAccess
    /\ UNCHANGED <<media_relays, cleanups, running, relay_running, frames,
                   sequence_counter, frames_received, lastRecorded, clients, queue,
                   last_frame, distCount, fanTodo, dead_clients, lockRest>>

\* _stream_worker, lines 179-188: the envelope is built and stored as
\* last_frame, no lock held.
SW_Store ==
    /\ tpc[TDist] = "got"
    /\ distCount' = distCount + 1
    /\ last_frame' = distCount + 1
    /\ tpc' = [tpc EXCEPT ![TDist] = "stored"]
    /\ access' = NoAccess
    /\ UNCHANGED <<lock, media_relays, cleanups, running, relay_running, frames,
                   sequence_counter, frames_received, lastRecorded, frames_served,
                   clients, queue, fanTodo, dead_clients, lockRest>>

\* _distribute_frame, line 207: `with self.lock:`.
DF_Acquire ==
    /\ tpc[TDist] = "stored"
    /\ lock["relay"] = Free
    /\ lock' = [lock EXCEPT !["relay"] = TDist]
    /\ tpc' = [tpc EXCEPT ![TDist] = "df_locked"]
    /\ access' = NoAccess
    /\ UNCHANGED <<media_relays, cleanups, running, relay_running, frames,
                   sequence_counter, frames_received, lastRecorded, frames_served,
                   clients, queue, last_frame, distCount, fanTodo, dead_clients,
                   lockRest>>

\* lines 209-213: dead_clients = [] and list(self.clients), the copy the loop
\* iterates over.
DF_Snapshot ==
    /\ tpc[TDist] = "df_locked"
    /\ fanTodo' = clients
    /\ dead_clients' = {}
    /\ access' = <<"dist", "iterate", lock["relay"] = TDist>>
    /\ tpc' = [tpc EXCEPT ![TDist] = "fan"]
    /\ UNCHANGED <<lock, media_relays, cleanups, running, relay_running, frames,
                   sequence_counter, frames_received, lastRecorded, frames_served,
                   clients, queue, last_frame, distCount, lockRest>>

\* lines 213-230: the next queue of the copy: put_nowait(); on queue.Full the
\* oldest envelope is dropped and the put retried; a retry that fails marks
\* the client dead.
DF_Put(v) ==
    /\ tpc[TDist] = "fan"
    /\ v \in fanTodo
    /\ IF Len(queue[v]) < CLIENT_QUEUE_SIZE
       THEN /\ queue' = [queue EXCEPT ![v] = Append(@, last_frame)]
            /\ UNCHANGED dead_clients
       ELSE IF Len(Tail(queue[v])) < CLIENT_QUEUE_SIZE
            THEN /\ queue' = [queue EXCEPT ![v] = Append(Tail(@), last_frame)]
                 /\ UNCHANGED dead_clients
            ELSE /\ queue' = [queue EXCEPT ![v] = Tail(@)]
                 /\ dead_clients' = dead_clients \cup {v}
    /\ fanTodo' = fanTodo \ {v}
    /\ access' = NoAccess
    /\ UNCHANGED <<lock, tpc, media_relays, cleanups, running, relay_running, frames,
                   sequence_counter, frames_received, lastRecorded, frames_served,
                   clients, last_frame, distCount, lockRest>>

\* lines 232-235: after the loop the dead clients are discarded; the lock is
\* released.
DF_Finish ==
    /\ tpc[TDist] = "fan"
    /\ fanTodo = {}
    /\ clients' = clients \ dead_clients
    /\ access' = IF dead_clients # {}
                 THEN <<"dist", "mutate", lock["relay"] = TDist>> ELSE NoAccess
    /\ dead_clients' = {}
    /\ lock' = [lock EXCEPT !["relay"] = Free]
    /\ tpc' = [tpc EXCEPT ![TDist] = "loop"]
    /\ UNCHANGED <<media_relays, cleanups, running, relay_running, frames,
                   sequence_counter, frames_received, lastRecorded, frames_served,
                   queue, last_frame, distCount, fanTodo, lockRest>>

\* _fetch_worker, frame_cache.py:119: `while self.running` finds the flag
\* cleared.
FW_Exit ==
    /\ tpc[TIngest] = "while"
    /\ ~running
    /\ tpc' = [tpc EXCEPT ![TIngest] = "dead"]
    /\ access' = NoAccess
    /\ UNCHANGED <<lock, media_relays, cleanups, running, relay_running, frames,
                   sequence_counter, frames_received, lastRecorded, frames_served,
                   clients, queue, last_frame, distCount, fanTodo, dead_clients,
                   lockRest>>

\* _cache_frame, frame_cache.py:219: `with self.lock:`, for the next frame the
\* stream yields.
CF_Acquire ==
    /\ tpc[TIngest] = "while"
    /\ running
    /\ frames_received < MaxLockFrames
    /\ lock["cache"] = Free
    /\ lock' = [lock EXCEPT !["cache"] = TIngest]
    /\ tpc' = [tpc EXCEPT ![TIngest] = "cf_locked"]
    /\ access' = NoAccess
    /\ UNCHANGED <<media_relays, cleanups, running, relay_running, frames,
                   sequence_counter, frames_received, lastRecorded, frames_served,
                   clients, queue, last_frame, distCount, fanTodo, dead_clients,
                   lockRest>>

\* _cache_frame, lines 220-238: the locked block; the lock is released.
CF_Locked ==
    /\ tpc[TIngest] = "cf_locked"
    /\ LET frame == CachedFrame(CHOOSE d \in Blobs : TRUE, now, sequence_counter) IN
        /\ frames' = AppendAndPurge(frames, frame, cache_duration)
        /\ lastRecorded' = frame
    /\ sequence_counter' = NextSequence(sequence_counter)
    /\ frames_received' = frames_received + 1
    /\ lock' = [lock EXCEPT !["cache"] = Free]
    /\ tpc' = [tpc EXCEPT ![TIngest] = "while"]
    /\ access' = NoAccess
    /\ UNCHANGED <<media_relays, cleanups, running, relay_running, frames_served,
                   clients, queue, last_frame, distCount, fanTodo, dead_clients,
                   lockRest>>

\* CachedMediaRelay.get_status(), line 248: get_cache_status(),
\* frame_cache.py:281: `with self.lock:` (the relay exists).
GS_CacheAcquire ==
    /\ tpc[TQuery] = "idle"
    /\ tpc[TDist] # "unborn"
    /\ lock["cache"] = Free
    /\ lock' = [lock EXCEPT !["cache"] = TQuery]
    /\ tpc' = [tpc EXCEPT ![TQuery] = "gs_cache"]
    /\ access' = NoAccess
    /\ UNCHANGED <<media_relays, cleanups, running, relay_running, frames,
                   sequence_counter, frames_received, lastRecorded, frames_served,
                   clients, queue, last_frame, distCount, fanTodo, dead_clients,
                   lockRest>>

\* The mutant of GS_CacheRead: the cache's lock is still held when
\* get_status goes on to take the relay's lock.
GS_CacheReadKeepsLock ==
    /\ tpc[TQuery] = "gs_cache"
    /\ tpc' = [tpc EXCEPT ![TQuery] = "gs_mid"]
    /\ access' = NoAccess
    /\ UNCHANGED <<lock, media_relays, cleanups, running, relay_running, frames,
                   sequence_counter, frames_received, lastRecorded, frames_served,
                   clients, queue, last_frame, distCount, fanTodo, dead_clients,
                   lockRest>>

\* The mutant of GS_CacheRead: the status query counts itself as a served
\* frame, as get_frame_to_serve does.
GS_CacheReadCounts ==
    /\ tpc[TQuery] = "gs_cache"
    /\ frames_served' = frames_served + 1
    /\ lock' = [lock EXCEPT !["cache"] = Free]
    /\ tpc' = [tpc EXCEPT ![TQuery] = "gs_mid"]
    /\ access' = NoAccess
    /\ UNCHANGED <<media_relays, cleanups, running, relay_running, frames,
                   sequence_counter, frames_received, lastRecorded, clients, queue,
                   last_frame, distCount, fanTodo, dead_clients, lockRest>>

\* get_cache_status, lines 282-293: the dictionary is built from the cache's
\* fields; the lock is released.
GS_CacheRead ==
    /\ tpc[TQuery] = "gs_cache"
    /\ lock' = [lock EXCEPT !["cache"] = Free]
    /\ tpc' = [tpc EXCEPT ![TQuery] = "gs_mid"]
    /\ access' = NoAccess
    /\ UNCHANGED <<media_relays, cleanups, running, relay_running, frames,
                   sequence_counter, frames_received, lastRecorded, frames_served,
                   clients, queue, last_frame, distCount, fanTodo, dead_clients,
                   lockRest>>

\* get_status, line 251: `with self.lock:`.
GS_RelayAcquire ==
    /\ tpc[TQuery] = "gs_mid"
    /\ lock["relay"] = Free
    /\ lock' = [lock EXCEPT !["relay"] = TQuery]
    /\ tpc' = [tpc EXCEPT ![TQuery] = "gs_relay"]
    /\ access' = NoAccess
    /\ UNCHANGED <<media_relays, cleanups, running, relay_running, frames,
                   sequence_counter, frames_received, lastRecorded, frames_served,
                   clients, queue, last_frame, distCount, fanTodo, dead_clients,
                   lockRest>>

\* get_status, lines 252-257: the dictionary is built (len(self.clients) is
\* read); the lock is released.
GS_RelayRead ==
    /\ tpc[TQuery] = "gs_relay"
    /\ access' = <<"query", "read", lock["relay"] = TQuery>>
    /\ lock' = [lock EXCEPT !["relay"] = Free]
    /\ tpc' = [tpc EXCEPT ![TQuery] = "idle"]
    /\ UNCHANGED <<media_relays, cleanups, running, relay_running, frames,
                   sequence_counter, frames_received, lastRecorded, frames_served,
                   clients, queue, last_frame, distCount, fanTodo, dead_clients,
                   lockRest>>

\* waitress_info, main_app.py:606: `with _media_lock:`.
WI_Acquire ==
    /\ tpc[TQuery] = "idle"
    /\ lock["media"] = Free
    /\ lock' = [lock EXCEPT !["media"] = TQuery]
    /\ tpc' = [tpc EXCEPT ![TQuery] = "wi_media"]
    /\ access' = NoAccess
    /\ UNCHANGED <<media_relays, cleanups, running, relay_running, frames,
                   sequence_counter, frames_received, lastRecorded, frames_served,
                   clients, queue, last_frame, distCount, fanTodo, dead_clients,
                   lockRest>>

\* line 607: the registry is empty, the loop body does not run; the lock is
\* released.
WI_Empty ==
    /\ tpc[TQuery] = "wi_media"
    /\ media_relays[LockUrl] = 0
    /\ lock' = [lock EXCEPT !["media"] = Free]
    /\ tpc' = [tpc EXCEPT ![TQuery] = "idle"]
    /\ access' = NoAccess
    /\ UNCHANGED <<media_relays, cleanups, running, relay_running, frames,
                   sequence_counter, frames_received, lastRecorded, frames_served,
                   clients, queue, last_frame, distCount, fanTodo, dead_clients,
                   lockRest>>

\* line 608: `with relay.lock:`, _media_lock held.
WI_RelayAcquire ==
    /\ tpc[TQuery] = "wi_media"
    /\ media_relays[LockUrl] # 0
    /\ lock["relay"] = Free
    /\ lock' = [lock EXCEPT !["relay"] = TQuery]
    /\ tpc' = [tpc EXCEPT ![TQuery] = "wi_relay"]
    /\ access' = NoAccess
    /\ UNCHANGED <<media_relays, cleanups, running, relay_running, frames,
                   sequence_counter, frames_received, lastRecorded, frames_served,
                   clients, queue, last_frame, distCount, fanTodo, dead_clients,
                   lockRest>>

\* lines 609-613: len(relay.clients), relay.last_frame and relay.running are
\* read; the relay's lock is released.
WI_Read ==
    /\ tpc[TQuery] = "wi_relay"
    /\ access' = <<"query", "read", lock["relay"] = TQuery>>
    /\ lock' = [lock EXCEPT !["relay"] = Free]
    /\ tpc' = [tpc EXCEPT ![TQuery] = "wi_done"]
    /\ UNCHANGED <<media_relays, cleanups, running, relay_running, frames,
                   sequence_counter, frames_received, lastRecorded, frames_served,
                   clients, queue, last_frame, distCount, fanTodo, dead_clients,
                   lockRest>>

\* the loop is over: _media_lock is released.
WI_Release ==
    /\ tpc[TQuery] = "wi_done"
    /\ lock' = [lock EXCEPT !["media"] = Free]
    /\ tpc' = [tpc EXCEPT ![TQuery] = "idle"]
    /\ access' = NoAccess
    /\ UNCHANGED <<media_relays, cleanups, running, relay_running, frames,
                   sequence_counter, frames_received, lastRecorded, frames_served,
                   clients, queue, last_frame, distCount, fanTodo, dead_clients,
                   lockRest>>

\* cleanup_relays, main_app.py:729: `with _media_lock:`.
CR_Acquire ==
    /\ tpc[TCleanup] = "idle"
    /\ cleanups < MaxCleanups
    /\ lock["media"] = Free
    /\ lock' = [lock EXCEPT !["media"] = TCleanup]
    /\ cleanups' = cleanups + 1
    /\ tpc' = [tpc EXCEPT ![TCleanup] = "cr_media"]
    /\ access' = NoAccess
    /\ UNCHANGED <<media_relays, running, relay_running, frames, sequence_counter,
                   frames_received, lastRecorded, frames_served, clients, queue,
                   last_frame, distCount, fanTodo, dead_clients, lockRest>>

\* lines 730-731: relay.stop() for every relay: both flags are cleared
\* (cached_relay.py:94, frame_cache.py:102).
CR_Stop ==
    /\ tpc[TCleanup] = "cr_media"
    /\ IF media_relays[LockUrl] # 0
       THEN /\ relay_running' = FALSE
            /\ running' = FALSE
            /\ tpc' = [tpc EXCEPT ![TCleanup] = "cr_join"]
       ELSE /\ tpc' = [tpc EXCEPT ![TCleanup] = "cr_clear"]
            /\ UNCHANGED <<relay_running, running>>
    /\ access' = NoAccess
    /\ UNCHANGED <<lock, media_relays, cleanups, frames, sequence_counter,
                   frames_received, lastRecorded, frames_served, clients, queue,
                   last_frame, distCount, fanTodo, dead_clients, lockRest>>

\* stop(): the two join(timeout=...) calls (frame_cache.py:106,
\* cached_relay.py:102) return, the threads ended or not.
CR_Joined ==
    /\ tpc[TCleanup] = "cr_join"
    /\ tpc' = [tpc EXCEPT ![TCleanup] = "cr_clear"]
    /\ access' = NoAccess
    /\ UNCHANGED <<lock, media_relays, cleanups, running, relay_running, frames,
                   sequence_counter, frames_received, lastRecorded, frames_served,
                   clients, queue, last_frame, distCount, fanTodo, dead_clients,
                   lockRest>>

\* line 732: _media_relays.clear(); the lock is released.
CR_Clear ==
    /\ tpc[TCleanup] = "cr_clear"
    /\ media_relays' = [u \in Urls |-> 0]
    /\ lock' = [lock EXCEPT !["media"] = Free]
    /\ tpc' = [tpc EXCEPT ![TCleanup] = "idle"]
    /\ access' = NoAccess
    /\ UNCHANGED <<cleanups, running, relay_running, frames, sequence_counter,
                   frames_received, lastRecorded, frames_served, clients, queue,
                   last_frame, distCount, fanTodo, dead_clients, lockRest>>

\* The steps of each thread.
ViewerStep(v) ==
    \/ GM_Acquire(v) \/ GM_GetOrCreate(v) \/ AC_Acquire(v) \/ AC_Add(v) \/ AC_Log(v)
    \/ RC_Acquire(v) \/ RC_Discard(v) \/ RC_Log(v)

DistStep ==
    \/ SW_Exit \/ SW_CacheAcquire \/ SW_Scan \/ SW_Store \/ DF_Acquire \/ DF_Snapshot
    \/ (\E v \in LockViewers : DF_Put(v)) \/ DF_Finish

IngestStep == FW_Exit \/ CF_Acquire \/ CF_Locked

QueryStep ==
    \/ GS_CacheAcquire \/ GS_CacheRead \/ GS_RelayAcquire \/ GS_RelayRead
    \/ WI_Acquire \/ WI_Empty \/ WI_RelayAcquire \/ WI_Read \/ WI_Release

CleanupStep == CR_Acquire \/ CR_Stop \/ CR_Joined \/ CR_Clear

LockNext ==
    \/ \E v \in LockViewers : ViewerStep(v)
    \/ DistStep \/ IngestStep \/ QueryStep \/ CleanupStep

LockSpec == LockInit /\ [][LockNext]_vars

\* -------------------------------------------------------- claims on LockSpec
\* C25 (as claimed): every step that reads, iterates or mutates self.clients
\* is taken by a thread holding the relay's lock.
C25_EveryAccessUnderLock == access # NoAccess => access[3]

\* C25 (amended): every step that iterates or mutates self.clients is taken
\* under the relay's lock, and the only reads without it are the request
\* threads' len(self.clients) of the log lines; and while the distribution
\* thread holds the lock, self.clients changes only when the pass, its
\* iteration over the snapshot finished, removes the dead clients.
C25_MutatedAndIteratedUnderLock ==
    [][/\ access'[2] \in {"iterate", "mutate"} => access'[3]
       /\ (access' # NoAccess /\ ~access'[3]) => access' = <<"viewer", "read", FALSE>>
       /\ (lock["relay"] = TDist /\ clients' # clients) =>
              /\ tpc[TDist] = "fan"
              /\ fanTodo = {}
              /\ tpc'[TDist] = "loop"]_vars

\* A request thread reads len(self.clients) for its log line while the
\* distribution thread is in the middle of a pass over a snapshot that
\* holds a viewer.
C25_Witness ==
    /\ access = <<"viewer", "read", FALSE>>
    /\ lock["relay"] = TDist
    /\ tpc[TDist] = "fan"
    /\ fanTodo # {}

\* The step is one of a CachedMediaRelay.get_status() call, its
\* get_cache_status() included.
StatusStep ==
    /\ tpc'[TQuery] # tpc[TQuery]
    /\ tpc[TQuery] \in {"gs_cache", "gs_mid", "gs_relay"} \/ tpc'[TQuery] = "gs_cache"

\* C26: no step of get_status() or get_cache_status() changes the retained
\* sequence, the sequence counter, the received, served and error counters,
\* the viewer set, the most recent envelope or a running flag; and the
\* retained sequence changes only in the locked block of _cache_frame.
C26_StatusChangesNothing ==
    [][/\ StatusStep => UNCHANGED <<frames, sequence_counter, frames_received,
                                    frames_served, upstream_errors, clients, queue,
                                    last_frame, running, relay_running>>
       /\ frames' # frames => (tpc[TIngest] = "cf_locked" /\ tpc'[TIngest] = "while")]_vars

\* A get_status() call has just returned on a relay with a recorded and
\* served frame, a registered viewer and a most recent envelope.
C26_Witness ==
    /\ access = <<"query", "read", TRUE>>
    /\ tpc[TQuery] = "idle"
    /\ frames # <<>>
    /\ frames_served > 0
    /\ clients # {}
    /\ last_frame # 0

\* The steps of thread t.
StepOf(t) ==
    CASE t = TDist -> DistStep
      [] t = TIngest -> IngestStep
      [] t = TQuery -> QueryStep
      [] t = TCleanup -> CleanupStep
      [] OTHER -> ViewerStep(t[2])

\* The locks thread t holds.
HeldBy(t) == {l \in Locks : lock[l] = t}

\* The locks of the `with` statements thread t stands before.
Awaited(t) ==
    CASE t[1] = "viewer" ->
            IF tpc[t] = "idle" THEN {"media"}
            ELSE IF tpc[t] \in {"add", "streaming"} THEN {"relay"} ELSE {}
      [] t = TDist ->
            IF tpc[t] = "loop" /\ relay_running THEN {"cache"}
            ELSE IF tpc[t] = "stored" THEN {"relay"} ELSE {}
      [] t = TIngest -> IF tpc[t] = "while" /\ running THEN {"cache"} ELSE {}
      [] t = TQuery ->
            IF tpc[t] = "idle" THEN {"cache", "media"}
            ELSE IF tpc[t] = "gs_mid" THEN {"relay"}
            ELSE IF tpc[t] = "wi_media" /\ media_relays[LockUrl] # 0 THEN {"relay"}
            ELSE {}
      [] OTHER -> IF tpc[t] = "idle" THEN {"media"} ELSE {}

\* C30: a thread about to take the registry lock holds no lock; a thread
\* about to take any lock holds at most the registry lock, so the holder of
\* a relay's or a cache's lock requests none; no thread holds a relay's and
\* a cache's lock together; and every thread that holds a lock can take a
\* step, or waits for a lock whose holder can.
C30_DeadlockFree ==
    \A t \in LockThreads :
        /\ "media" \in Awaited(t) => HeldBy(t) = {}
        /\ Awaited(t) # {} => HeldBy(t) \subseteq {"media"}
        /\ ~({"relay", "cache"} \subseteq HeldBy(t))
        /\ HeldBy(t) # {} =>
              \/ ENABLED StepOf(t)
              \/ \E l \in Awaited(t) : lock[l] # Free /\ ENABLED StepOf(lock[l])

\* All three locks are held, by three threads: waitress_info holds the
\* registry lock and waits for the relay's, which a request thread holds
\* inside add_client; the ingestion thread holds the cache's, for which the
\* distribution thread waits; and cleanup_relays waits for the registry lock.
C30_Witness ==
    /\ lock["media"] = TQuery
    /\ tpc[TQuery] = "wi_media"
    /\ \E v \in LockViewers : lock["relay"] = TViewer(v)
    /\ lock["cache"] = TIngest
    /\ tpc[TDist] = "loop"
    /\ tpc[TCleanup] = "idle"

\* ====================================================================
\* RegistrySpec: request threads calling get_media_relay (main_app.py lines
\* 324-336) for URLs of a small set, and the exit hook calling cleanup_relays
\* (lines 724-733). A relay is a number r >= 1, in order of construction.
\*
\* lpc:  "idle"     not in a call
\*       "wait"     get_media_relay called, waiting for `with _media_lock:`
\*       "get"      lock held, about to run line 326
\*       "create"   lock held, line 327 found None
\*       "return"   lock held, about to return relay (and release the lock)
\*       "cwait"    cleanup_relays called, waiting for the lock
\*       "cstop"    lock held, about to stop every relay and clear the map
\* ====================================================================

\* The mutant of Lookup: the entry is never found.
LookupMiss(registry, stream_url) == 0

\* line 326: _media_relays.get(stream_url)
Lookup(registry, stream_url) == registry[stream_url]

Relays == 1..Len(relayUrl)

\* A relay whose threads are running: started and not stopped.
Live(r) == starts[r] > 0 /\ stops[r] = 0

RegistryInit ==
    /\ CacheIdle
    /\ cache_duration = MaxDuration
    /\ serve_delay = 0
    /\ ParseIdle
    /\ LifeIdle
    /\ RelayIdle
    /\ BackoffIdle
    /\ RegistryIdle
    /\ ShutdownIdle
    /\ LockIdle

\* A request thread calls get_media_relay(stream_url).
L_Call(t, u) ==
    /\ lpc[t] = "idle"
    /\ lpc' = [lpc EXCEPT ![t] = "wait"]
    /\ lurl' = [lurl EXCEPT ![t] = u]
    /\ got' = [got EXCEPT ![t] = 0]
    /\ UNCHANGED <<media_relays, media_lock, lrelay, relayUrl, starts, stops,
                   cleanups, outsideRegistry>>

\* line 325: `with _media_lock:` is entered. (A lookup that would construct
\* relay MaxRelays + 1 is not begun.)
L_Acquire(t) ==
    /\ lpc[t] = "wait"
    /\ media_lock = 0
    /\ media_relays[lurl[t]] # 0 \/ Len(relayUrl) < MaxRelays
    /\ media_lock' = t
    /\ lpc' = [lpc EXCEPT ![t] = "get"]
    /\ UNCHANGED <<media_relays, lurl, lrelay, relayUrl, starts, stops, got,
                   cleanups, outsideRegistry>>

\* lines 326-327: relay = _media_relays.get(stream_url); if relay is None
L_Get(t) ==
    /\ lpc[t] = "get"
    /\ LET relay == Lookup(media_relays, lurl[t]) IN
        /\ lrelay' = [lrelay EXCEPT ![t] = relay]
        /\ lpc' = [lpc EXCEPT ![t] = IF relay = 0 THEN "create" ELSE "return"]
    /\ UNCHANGED <<media_relays, media_lock, lurl, relayUrl, starts, stops, got,
                   cleanups, outsideRegistry>>

\* lines 328-335: a relay is constructed, started and stored under the URL.
L_Create(t) ==
    /\ lpc[t] = "create"
    /\ Len(relayUrl) < MaxRelays
    /\ LET relay == Len(relayUrl) + 1 IN
        /\ relayUrl' = Append(relayUrl, lurl[t])
        /\ starts' = Append(starts, 1)
        /\ stops' = Append(stops, 0)
        /\ media_relays' = [media_relays EXCEPT ![lurl[t]] = relay]
        /\ lrelay' = [lrelay EXCEPT ![t] = relay]
    /\ lpc' = [lpc EXCEPT ![t] = "return"]
    /\ UNCHANGED <<media_lock, lurl, got, cleanups, outsideRegistry>>

\* line 336: return relay, leaving the `with` block.
L_Return(t) ==
    /\ lpc[t] = "return"
    /\ got' = [got EXCEPT ![t] = lrelay[t]]
    /\ media_lock' = 0
    /\ lpc' = [lpc EXCEPT ![t] = "idle"]
    /\ lrelay' = [lrelay EXCEPT ![t] = 0]
    /\ UNCHANGED <<media_relays, lurl, relayUrl, starts, stops, cleanups,
                   outsideRegistry>>

\* The exit hook (lines 740-742) calls cleanup_relays() on an idle thread.
K_Call(t) ==
    /\ lpc[t] = "idle"
    /\ cleanups < MaxCleanups
    /\ cleanups' = cleanups + 1
    /\ lpc' = [lpc EXCEPT ![t] = "cwait"]
    /\ UNCHANGED <<media_relays, media_lock, lurl, lrelay, relayUrl, starts, stops,
                   got, outsideRegistry>>

\* line 729: `with _media_lock:` is entered.
K_Acquire(t) ==
    /\ lpc[t] = "cwait"
    /\ media_lock = 0
    /\ media_lock' = t
    /\ lpc' = [lpc EXCEPT ![t] = "cstop"]
    /\ UNCHANGED <<media_relays, lurl, lrelay, relayUrl, starts, stops, got,
                   cleanups, outsideRegistry>>

\* lines 730-732: every stored relay is stopped, the map is cleared, and the
\* lock is released.
K_StopAll(t) ==
    /\ lpc[t] = "cstop"
    /\ stops' = [r \in Relays |->
                   IF \E u \in Urls : media_relays[u] = r THEN stops[r] + 1 ELSE stops[r]]
    /\ media_relays' = [u \in Urls |-> 0]
    /\ media_lock' = 0
    /\ lpc' = [lpc EXCEPT ![t] = "idle"]
    /\ UNCHANGED <<lurl, lrelay, relayUrl, starts, got, cleanups, outsideRegistry>>

RegistryNext ==
    \/ \E t \in Threads :
          \/ \E u \in Urls : L_Call(t, u)
          \/ L_Acquire(t) \/ L_Get(t) \/ L_Create(t) \/ L_Return(t)
          \/ K_Call(t) \/ K_Acquire(t) \/ K_StopAll(t)

RegistrySpec == RegistryInit /\ [][RegistryNext]_vars

\* ---------------------------------------------------- claims on RegistrySpec
\* C15: the relay a lookup returned was constructed for the URL looked up
\* and, unless cleanup_relays has stopped it since, is the relay the registry
\* holds for that URL, so lookups of one URL return one relay; a relay is
\* started exactly once; of the relays constructed for one URL at most one is
\* live at any time; and the registry holds only live relays, each under the
\* URL it was constructed for.
C15_OneRelayPerUrl ==
    /\ \A t \in Threads : got[t] # 0 =>
          /\ relayUrl[got[t]] = lurl[t]
          /\ stops[got[t]] = 0 => got[t] = media_relays[lurl[t]]
    /\ \A r \in Relays : starts[r] = 1
    /\ \A r1, r2 \in Relays :
          (Live(r1) /\ Live(r2) /\ relayUrl[r1] = relayUrl[r2]) => r1 = r2
    /\ \A u \in Urls : media_relays[u] # 0 =>
          (relayUrl[media_relays[u]] = u /\ Live(media_relays[u]))

\* Two threads have looked the same URL up and hold the same relay, while a
\* relay for another URL exists as well.
C15_Witness ==
    /\ \E t1, t2 \in Threads :
          /\ t1 # t2
          /\ lurl[t1] = lurl[t2]
          /\ got[t1] # 0
          /\ got[t1] = got[t2]
          /\ lpc[t1] = "idle" /\ lpc[t2] = "idle"
    /\ Len(relayUrl) >= 2

\* ====================================================================
\* BackoffSpec: one _fetch_worker thread (lines 110-153) with its local
\* retry_delay, against an upstream that accepts or refuses connections and
\* ends or breaks streams at will, and against stop() / start() flipping the
\* running flag. Frames play no part here (ParseSpec and LifeSpec have them).
\*
\* bpc:  "unborn" | "while" (line 119) | "connect" (lines 125-133)
\*       | "parse" (line 139, inside _parse_mjpeg_stream)
\*       | "except" (line 141) | "sleep" (line 149) | "dead"
\* ====================================================================

\* The mutant of NextDelay: the cap is forgotten.
NextDelayUncapped(d) ==
    (d * RETRY_DELAY_MULTIPLIER_NUM) \div RETRY_DELAY_MULTIPLIER_DEN

\* line 153: min(retry_delay * RETRY_DELAY_MULTIPLIER, RETRY_DELAY_MAX)
NextDelay(d) ==
    Min((d * RETRY_DELAY_MULTIPLIER_NUM) \div RETRY_DELAY_MULTIPLIER_DEN,
        RETRY_DELAY_MAX)

\* The thread has just been started by start(): line 116 has run.
BackoffInit ==
    /\ CacheIdle
    /\ cache_duration = MaxDuration
    /\ serve_delay = 0
    /\ ParseIdle
    /\ LifeIdle
    /\ RelayIdle
    /\ RegistryIdle
    /\ ShutdownIdle
    /\ LockIdle
    /\ bpc = "while"
    /\ retry_delay = RETRY_DELAY_MIN
    /\ sleepLog = <<>>
    /\ reconnected = FALSE

\* line 119: while self.running
B_While ==
    /\ bpc = "while"
    /\ bpc' = IF running THEN "connect" ELSE "dead"
    /\ UNCHANGED <<running, upstream_errors, retry_delay, sleepLog, reconnected,
                   outsideBackoff>>

\* lines 125-139: requests.get returned a success status; retry_delay is reset
\* and parsing begins.
B_Connected ==
    /\ bpc = "connect"
    /\ retry_delay' = RETRY_DELAY_MIN
    /\ sleepLog' = <<>>
    /\ reconnected' = (reconnected \/ sleepLog # <<>>)
    /\ bpc' = "parse"
    /\ UNCHANGED <<running, upstream_errors, outsideBackoff>>

\* lines 125-133: requests.get or raise_for_status raises.
B_ConnectFailed ==
    /\ bpc = "connect"
    /\ upstream_errors < MaxFailures
    /\ bpc' = "except"
    /\ UNCHANGED <<running, upstream_errors, retry_delay, sleepLog, reconnected,
                   outsideBackoff>>

\* The mutant of B_StreamEnds: the end of a stream is followed by a back-off
\* sleep, as a failure is.
B_StreamEndsSleeps ==
    /\ bpc = "parse"
    /\ sleepLog' = Append(sleepLog, retry_delay)
    /\ bpc' = "sleep"
    /\ UNCHANGED <<running, upstream_errors, retry_delay, reconnected, outsideBackoff>>

\* line 139: _parse_mjpeg_stream returns (the body ended, or the running flag
\* was found cleared): back to the while test, with no sleep.
B_StreamEnds ==
    /\ bpc = "parse"
    /\ bpc' = "while"
    /\ UNCHANGED <<running, upstream_errors, retry_delay, sleepLog, reconnected,
                   outsideBackoff>>

\* line 139: _parse_mjpeg_stream raises (a read error, re-raised at line 208).
B_ReadFailed ==
    /\ bpc = "parse"
    /\ upstream_errors < MaxFailures
    /\ bpc' = "except"
    /\ UNCHANGED <<running, upstream_errors, retry_delay, sleepLog, reconnected,
                   outsideBackoff>>

\* lines 141-149: the error is counted; if the cache is still running the
\* thread calls time.sleep(retry_delay), otherwise it goes back to line 119.
B_Except ==
    /\ bpc = "except"
    /\ upstream_errors' = upstream_errors + 1
    /\ IF running
       THEN /\ sleepLog' = Append(sleepLog, retry_delay)
            /\ bpc' = "sleep"
       ELSE /\ bpc' = "while"
            /\ UNCHANGED sleepLog
    /\ UNCHANGED <<running, retry_delay, reconnected, outsideBackoff>>

\* lines 149-153: the sleep returns and retry_delay is raised for next time.
B_Slept ==
    /\ bpc = "sleep"
    /\ retry_delay' = NextDelay(retry_delay)
    /\ bpc' = "while"
    /\ UNCHANGED <<running, upstream_errors, sleepLog, reconnected, outsideBackoff>>

\* stop(), line 102, called by another thread.
B_StopFlag ==
    /\ running
    /\ bpc # "dead"
    /\ running' = FALSE
    /\ UNCHANGED <<upstream_errors, backoffVars, outsideBackoff>>

\* start(), line 89, called by another thread after a stop() whose join timed
\* out: the flag is set again while this thread is still alive.
B_StartFlag ==
    /\ ~running
    /\ bpc # "dead"
    /\ running' = TRUE
    /\ UNCHANGED <<upstream_errors, backoffVars, outsideBackoff>>

BackoffNext ==
    \/ B_While \/ B_Connected \/ B_ConnectFailed \/ B_StreamEnds \/ B_ReadFailed
    \/ B_Except \/ B_Slept \/ B_StopFlag \/ B_StartFlag

BackoffSpec == BackoffInit /\ [][BackoffNext]_vars

\* ----------------------------------------------------- claims on BackoffSpec
\* C11: of the sleeps since the last successful connection (or since the
\* thread began), the first lasts RETRY_DELAY_MIN and each following one lasts
\* min(previous sleep x 1.5, RETRY_DELAY_MAX).
C11_BackoffSchedule ==
    sleepLog # <<>> =>
        /\ sleepLog[1] = RETRY_DELAY_MIN
        /\ \A i \in 2..Len(sleepLog) :
              IF RETRY_DELAY_MULTIPLIER_NUM * sleepLog[i-1]
                     <= RETRY_DELAY_MULTIPLIER_DEN * RETRY_DELAY_MAX
              THEN RETRY_DELAY_MULTIPLIER_DEN * sleepLog[i]
                     = RETRY_DELAY_MULTIPLIER_NUM * sleepLog[i-1]
              ELSE sleepLog[i] = RETRY_DELAY_MAX

\* After a failure, a success and further failures, the sleep has grown from
\* the minimum up to the maximum.
C11_Witness ==
    /\ reconnected
    /\ Len(sleepLog) >= 2
    /\ sleepLog[1] = RETRY_DELAY_MIN
    /\ sleepLog[Len(sleepLog)] = RETRY_DELAY_MAX

\* C29: when _parse_mjpeg_stream returns without raising, the error counter
\* and retry_delay are left alone, retry_delay being RETRY_DELAY_MIN, and
\* no sleep is logged; from the loop test a running thread goes straight to
\* the next connection; the error counter grows only in the exception
\* handler, and a sleep begins only there.
C29_CleanEndReconnectsAtOnce ==
    [][/\ (bpc = "parse" /\ bpc' = "while") =>
              /\ upstream_errors' = upstream_errors
              /\ retry_delay = RETRY_DELAY_MIN
              /\ retry_delay' = RETRY_DELAY_MIN
              /\ sleepLog = <<>>
              /\ sleepLog' = <<>>
       /\ (bpc = "while" /\ bpc' # "while") => (bpc' = IF running THEN "connect" ELSE "dead")
       /\ upstream_errors' # upstream_errors =>
              (bpc = "except" /\ upstream_errors' = upstream_errors + 1)
       /\ (bpc' = "sleep" /\ bpc # "sleep") => bpc = "except"
       /\ sleepLog' # sleepLog => (bpc = "except" \/ (bpc = "connect" /\ sleepLog' = <<>>))]_vars

\* After one failure and its sleep the thread connected; that stream ended
\* without an error, and the thread is connecting again, one error counted
\* in all and the delay at its minimum.
C29_Witness ==
    /\ bpc = "connect"
    /\ running
    /\ reconnected
    /\ upstream_errors = 1
    /\ sleepLog = <<>>
    /\ retry_delay = RETRY_DELAY_MIN

====
